---- MODULE Spec2Model ----
(***************************************************************************)
(* Model of the graph-database access layer of wisdom-book:                *)
(*   backend/neo4j_app/neo4j_service.py   (Neo4jService, Neo4jQueryError)  *)
(*   backend/neo4j_app/middleware/query_logger.py   (log_query wrapper)    *)
(*                                                                         *)
(* One caller thread issues run_query(), health() and close() on the       *)
(* shared service.  Every run_query goes through the log_query wrapper.    *)
(* Times are in milliseconds (retry_backoff 0.25 s is 250).                *)
(* A parameter key is a sequence of characters, so that lower-casing and   *)
(* substring matching are computed the way the code computes them.         *)
(***************************************************************************)
EXTENDS Integers, Sequences, FiniteSets, TLC

VARIABLES
    configured,      \* NEO4J_URI and NEO4J_USERNAME are both non-empty
    driver,          \* Neo4jService._driver: 0 is None, n > 0 the n-th handle built
    driversCreated,  \* number of GraphDatabase.driver(...) calls so far
    closeCalls,      \* number of close() calls so far
    closed,          \* close() has torn down a handle
    logConfig,       \* query_logger.config
    caller,          \* operation in progress / last finished: none, direct, health, close
    inv,             \* arguments of the current run_query invocation
    pc,              \* position of the caller thread
    attempt,         \* run_query's local variable attempt
    sessionsOpen,    \* sessions of this invocation currently open
    sessionsOpened,  \* sessions opened by this invocation
    runs,            \* session.run calls of this invocation
    transientFails,  \* session.run calls of this invocation that raised a transient error
    lastOutcome,     \* what the engine did on the most recent session.run
    sleeps,          \* durations passed to time.sleep by this invocation, in order
    outcome,         \* what the undecorated run_query returned or raised
    emitted,         \* records given to the neo4j.queries logger by this invocation
    delivered,       \* what the caller of the decorated run_query got
    healthResult,    \* return value of health(): "none" until it returns
    elapsed,         \* the wrapper's elapsed_ms, -1 until it is measured
    \* concurrent callers of get_driver()
    tpc,             \* position of each thread inside get_driver
    lockOwner,       \* thread holding Neo4jService._lock, 0 when free
    got,             \* what get_driver gave each thread: 0 nothing yet, -1 RuntimeError
    tookLock,        \* each thread: it has acquired _lock in this call
    lateArrival,     \* each thread: the handle was already stored when it called
    \* one call of get_slow_query_stats()
    apc,             \* position inside get_slow_query_stats: idle, start, scan, done
    logExists,       \* os.path.exists(log_file)
    logFile,         \* the lines of the log file, in file order
    anArgs,          \* the arguments min_time_ms, group_by, top_n
    scanPos,         \* index of the next line the for loop reads
    stats,           \* the dict stats: group key -> aggregates
    groupOrder,      \* the keys of stats in insertion (= iteration) order
    anResult,        \* the list the call returned
    \* one request to an API view of neo4j_app
    vpc,             \* position inside the view's get(): idle, start, count, list, detail, done
    vReq,            \* the request: view, q, item_type, raw skip and limit
    vPage,           \* the (skip, limit) parse_pagination returned
    vTotal,          \* the local variable total of the service method
    vFailed,         \* a run_query call of this request raised Neo4jQueryError
    vResponse,       \* what the view gave Django: a response, or an exception
    \* the neo4j.queries logger of the process and the middleware of one thread
    cfgOverrides,    \* the overrides of the configure_query_logging calls so far
    handlers,        \* query_logger.handlers: the file of each FileHandler attached
    fileLines,       \* number of lines in each log file
    emits,           \* number of records the wrapper has logged so far
    lastEmit,        \* the latest logged record: lines appended per file, its context
    tlocal,          \* the thread-local _local of the thread
    mpc,             \* position of the thread in QueryLoggerMiddleware.__call__
    requests,        \* number of requests the middleware has been called with
    mwOutcome,       \* how the latest __call__ ended: none, response, raised
    \* the relational cache of topics and thoughts and the syncs that fill it
    topicTable,      \* the Topic rows with their TopicTag and Description rows
    thoughtTable,    \* the Thought rows
    topicSyncLog,    \* the TopicSyncLog rows: success of each sync, oldest first
    syClock,         \* timezone.now(), counted in syncs
    syLast,          \* the latest sync call: its arguments, the query outcome, the result
    \* the tag sources and the items sync_tags aggregates them from
    sourceItems,     \* the Topic, Thought, Quote and Passage rows with their tag rows
    nextPk,          \* the next primary key of each of the four tables
    tagSources,      \* the TagSource rows
    edits,           \* number of creations, deletions and tag changes so far
    tagSyncs,        \* number of sync_tags calls so far
    tgLast           \* how the latest sync_tags call ended: none, completed, raised

svcVars == <<configured, driver, driversCreated, closeCalls, closed, logConfig, caller,
             inv, pc, attempt, sessionsOpen, sessionsOpened, runs, transientFails,
             lastOutcome, sleeps, outcome, emitted, delivered, healthResult, elapsed>>

gdVars == <<tpc, lockOwner, got, tookLock, lateArrival>>

\* Variables the single-caller service model leaves alone.
anVars == <<apc, logExists, logFile, anArgs, scanPos, stats, groupOrder, anResult>>

viewVars == <<vpc, vReq, vPage, vTotal, vFailed, vResponse>>

lgVars == <<cfgOverrides, handlers, fileLines, emits, lastEmit, tlocal, mpc, requests,
           mwOutcome>>

syVars == <<topicTable, thoughtTable, topicSyncLog, syClock, syLast>>

tgVars == <<sourceItems, nextPk, tagSources, edits, tagSyncs, tgLast>>

restVars == <<lgVars, syVars, tgVars>>

extVars == <<gdVars, anVars, viewVars, restVars>>

vars == <<svcVars, extVars>>

(***************************************************************************)
(* Bounds of the model.                                                    *)
(***************************************************************************)
MaxRetriesBound == 2     \* max_retries is drawn from 0..MaxRetriesBound
MaxCloses == 1           \* close() is called at most this many times
NumThreads == 3          \* threads calling get_driver concurrently

(***************************************************************************)
(* Program constants.                                                      *)
(***************************************************************************)
DefaultMaxRetries == 3           \* run_query(max_retries=3)
DefaultRetryBackoff == 250       \* run_query(retry_backoff=0.25), in ms
DefaultSlowThreshold == 100      \* DEFAULT_CONFIG["slow_query_threshold_ms"]
VerySlowFactor == 5              \* "Full slow query" above threshold * 5

REDACTED == "[REDACTED]"

(***************************************************************************)
(* Characters, keys and case folding (str.lower on ASCII).                 *)
(***************************************************************************)
UpperCase == <<"A","B","C","D","E","F","G","H","I","J","K","L","M",
               "N","O","P","Q","R","S","T","U","V","W","X","Y","Z">>
LowerCase == <<"a","b","c","d","e","f","g","h","i","j","k","l","m",
               "n","o","p","q","r","s","t","u","v","w","x","y","z">>

LowerChar(c) ==
    IF \E i \in 1..Len(UpperCase) : UpperCase[i] = c
    THEN LowerCase[CHOOSE i \in 1..Len(UpperCase) : UpperCase[i] = c]
    ELSE c

Lower(s) == [i \in 1..Len(s) |-> LowerChar(s[i])]

\* Python's `needle in hay` on strings.
IsSubstring(needle, hay) ==
    \E i \in 0..(Len(hay) - Len(needle)) :
        \A j \in 1..Len(needle) : hay[i + j] = needle[j]

W_password == <<"p","a","s","s","w","o","r","d">>
W_secret   == <<"s","e","c","r","e","t">>
W_token    == <<"t","o","k","e","n">>
W_key      == <<"k","e","y">>

K_param1   == <<"p","a","r","a","m","1">>
K_username == <<"u","s","e","r","n","a","m","e">>
K_password == W_password
K_Password == <<"P","a","s","s","w","o","r","d">>
K_api_key  == <<"a","p","i","_","k","e","y">>
K_TOKEN    == <<"T","O","K","E","N">>

EmptyParams == [k \in {} |-> ""]

P_none     == EmptyParams
P_plain    == (K_param1 :> "value1")
P_login    == (K_username :> "neo4j") @@ (K_password :> "hunter2")
P_mixed    == (K_username :> "neo4j") @@ (K_Password :> "hunter2")
P_api_key  == (K_api_key :> "abc123")
P_token    == (K_TOKEN :> "tok-9")

\* Parameter mappings a caller may pass (None and {} are both falsy in every
\* test the code makes, and are one value here).
ParamChoices == {P_none, P_plain, P_login, P_mixed, P_api_key, P_token}

\* query_name is keyword-only and optional; Absent stands for "not supplied".
Absent == "<absent>"
QueryNames == {Absent, "topics_list"}

TestQuery == "MATCH (n) RETURN n LIMIT 1"
HealthQuery == "RETURN 1 AS ok"

BackoffChoices == {100, DefaultRetryBackoff}

(***************************************************************************)
(* The engine: what session.run / result iteration may do on one attempt.  *)
(***************************************************************************)
TransientKinds == {"SessionExpired", "TransientError", "ServiceUnavailable"}
ErrorKinds == TransientKinds \cup {"CypherSyntaxError", "AuthError", "ValueError"}

RowChoices == { <<>>,
                << [ok |-> 1] >>,
                << [ok |-> 0] >>,
                << [n |-> 7] >>,
                << [ok |-> 1], [n |-> 7] >>,
                << [n |-> 7], [ok |-> 1] >> }

\* Error texts of a CypherSyntaxError, as the fragments the text is made of.
SyntaxTexts == { << "Invalid input" >>,
                 << "The property existence syntax", "exists(variable.property)",
                    "is no longer supported." >>,
                 << "Error with", "CONTAINS", "operation" >> }

EngineOutcomes ==
    [kind : {"ok"}, rows : RowChoices, text : {<<>>}]
    \cup [kind : ErrorKinds \ {"CypherSyntaxError"}, rows : {<<>>}, text : {<<>>}]
    \cup [kind : {"CypherSyntaxError"}, rows : {<<>>}, text : SyntaxTexts]

NoOutcome == [kind |-> "none", rows |-> <<>>, text |-> <<>>]

(***************************************************************************)
(* Neo4jQueryError                                                         *)
(***************************************************************************)
SensitiveExact == {W_password, W_secret, W_token, W_key}

\* safe_params of Neo4jQueryError.__init__
SafeParams(params) ==
    [k \in DOMAIN params |->
        IF Lower(k) \notin SensitiveExact THEN params[k] ELSE REDACTED]

NoText == [message |-> "", detail |-> "", query |-> "", cypher |-> "",
           has_params |-> FALSE, params |-> EmptyParams, guidance |-> <<>>]

\* The exception object: its attributes and str(error), the joined details.
\* message is the classification prefix and detail the interpolated cause.
Neo4jQueryError(message, detail, cause, query_name, cypher, params, guidance) ==
    [query_name |-> query_name,
     cypher     |-> cypher,
     params     |-> params,
     guidance   |-> guidance,
     cause      |-> cause,
     text       |-> [message    |-> message,
                     detail     |-> detail,
                     query      |-> query_name,
                     cypher     |-> cypher,
                     has_params |-> DOMAIN params # {},
                     params     |-> IF DOMAIN params # {} THEN SafeParams(params)
                                    ELSE EmptyParams,
                     guidance   |-> guidance]]

NoError == [query_name |-> "", cypher |-> "", params |-> EmptyParams,
            guidance |-> <<>>, cause |-> "", text |-> NoText]

NoResult == [type |-> "none", rows |-> <<>>, error |-> NoError]
Returned(rows) == [type |-> "rows", rows |-> rows, error |-> NoError]
Raised(error) == [type |-> "error", rows |-> <<>>, error |-> error]

(***************************************************************************)
(* Neo4jService.run_query: classification and retry policy                 *)
(***************************************************************************)

\* Variant: an exception no clause names is handled as transient.
ExceptClause_UnknownTransient(kind) ==
    CASE kind = "CypherSyntaxError" -> "syntax"
      [] kind = "AuthError" -> "auth"
      [] OTHER -> "transient"

\* Variant: AuthError handled by the transient clause.
ExceptClause_AuthTransient(kind) ==
    CASE kind \in {"SessionExpired", "TransientError", "ServiceUnavailable", "AuthError"}
            -> "transient"
      [] kind = "CypherSyntaxError" -> "syntax"
      [] OTHER -> "unexpected"

\* Which except clause of run_query catches an exception of class kind.
ExceptClause(kind) ==
    CASE kind \in {"SessionExpired", "TransientError", "ServiceUnavailable"}
            -> "transient"
      [] kind = "CypherSyntaxError" -> "syntax"
      [] kind = "AuthError" -> "auth"
      [] OTHER -> "unexpected"


\* Variant: the retry budget compared with >= instead of >.
RetriesExhausted_OffByOne(att, max_retries) == att >= max_retries

\* Variant: one more attempt is allowed.
RetriesExhausted_OneMore(att, max_retries) == att > max_retries + 1

RetriesExhausted(att, max_retries) == att > max_retries

\* 2 ** n
RECURSIVE Pow2(_)
Pow2(n) == IF n <= 0 THEN 1 ELSE 2 * Pow2(n - 1)


\* Variant: the exponent taken from the incremented counter.
SleepFor_NoMinusOne(retry_backoff, att) == retry_backoff * (2 ^ att)

\* sleep_for = retry_backoff * (2 ** (attempt - 1))
SleepFor(retry_backoff, att) == retry_backoff * Pow2(att - 1)


\* Variant: the write flag is not consulted.
OnTransient_RetryWrites(write, att, max_retries) ==
    IF RetriesExhausted(att + 1, max_retries)
    THEN [next |-> "raise", message |-> "Max retries exceeded", attempt |-> att + 1]
    ELSE [next |-> "sleep", message |-> "", attempt |-> att + 1]

\* The transient except clause: what it does given write and the attempt
\* counter on entry.  attempt is incremented before it is compared.
OnTransient(write, att, max_retries) ==
    IF write
    THEN [next |-> "raise", message |-> "Write operation failed", attempt |-> att]
    ELSE IF RetriesExhausted(att + 1, max_retries)
         THEN [next |-> "raise", message |-> "Max retries exceeded",
               attempt |-> att + 1]
         ELSE [next |-> "sleep", message |-> "", attempt |-> att + 1]

Contains(text, fragment) == \E i \in 1..Len(text) : text[i] = fragment

G_exists == "SYNTAX UPDATE REQUIRED: Replace 'exists(n.property)' with 'n.property IS NOT NULL'"
G_case == "Check case sensitivity in string operations (STARTS WITH, ENDS WITH, CONTAINS)."
G_direction == "Check relationship direction."
G_compat == "Neo4j 5.x compatibility issue"
G_general == "General tips"

\* Variant: the general block is appended whatever matched.
get_syntax_guidance_AlwaysGeneral(error_msg) ==
    (IF Contains(error_msg, "exists(variable.property)") THEN <<G_exists>> ELSE <<>>)
    \o (IF Contains(error_msg, "CONTAINS") THEN <<G_case>> ELSE <<>>)
    \o <<G_general>>

\* Neo4jService._get_syntax_guidance: the guidance blocks, in order.
get_syntax_guidance(error_msg) ==
    LET g1 == IF Contains(error_msg, "exists(variable.property)")
              THEN <<G_exists>> ELSE <<>>
        g2 == IF \/ Contains(error_msg, "STARTS WITH")
                 \/ Contains(error_msg, "ENDS WITH")
                 \/ Contains(error_msg, "CONTAINS")
              THEN <<G_case>> ELSE <<>>
        g3 == IF Contains(error_msg, "MATCH (n)-[r]->") THEN <<G_direction>> ELSE <<>>
        g4 == IF Contains(error_msg, "Error 42I52") THEN <<G_compat>> ELSE <<>>
        specific == g1 \o g2 \o g3 \o g4
    IN IF specific = <<>> THEN <<G_general>> ELSE specific


\* Variant: the rows collected in reverse order.
CollectRows_Reversed(result) == [i \in 1..Len(result) |-> result[Len(result) + 1 - i]]

\* [r.data() for r in result]
CollectRows(result) == [i \in 1..Len(result) |-> result[i]]

\* The query name run_query works with (its keyword default).
RunQueryName(query_name) == IF query_name = Absent THEN "unnamed_query" ELSE query_name

\* The error a non-transient except clause raises.
FatalError(clause, o, i) ==
    LET qn == RunQueryName(i.query_name) IN
    CASE clause = "syntax" ->
            Neo4jQueryError("Syntax error", o.kind, o.kind, qn, i.cypher, i.params,
                            get_syntax_guidance(o.text))
      [] clause = "auth" ->
            Neo4jQueryError("Authentication failed", "", o.kind, qn, i.cypher,
                            EmptyParams, <<>>)
      [] OTHER ->
            Neo4jQueryError("Unexpected error", o.kind, o.kind, qn, i.cypher,
                            i.params, <<>>)

\* The error the transient except clause raises.
TransientError(message, o, i) ==
    Neo4jQueryError(message, o.kind, o.kind, RunQueryName(i.query_name), i.cypher,
                    i.params, <<>>)

(***************************************************************************)
(* Neo4jService.get_driver, as one caller sees it                          *)
(***************************************************************************)
\* Variant: the handle is built without looking at the configuration.
get_driver_NoConfigCheck(drv, created, conf) ==
    IF drv # 0
    THEN [raised |-> FALSE, driver |-> drv, created |-> created]
    ELSE [raised |-> FALSE, driver |-> created + 1, created |-> created + 1]

\* The stored handle; else RuntimeError when NEO4J_URI or NEO4J_USERNAME is
\* missing; else a new handle from GraphDatabase.driver, stored.
get_driver(drv, created, conf) ==
    IF drv # 0
    THEN [raised |-> FALSE, driver |-> drv, created |-> created]
    ELSE IF ~conf
         THEN [raised |-> TRUE, driver |-> drv, created |-> created]
         ELSE [raised |-> FALSE, driver |-> created + 1, created |-> created + 1]

(***************************************************************************)
(* Neo4jService.health                                                     *)
(***************************************************************************)

\* Variant: any non-empty result counts as healthy.
HealthValue_Truthy(d) == d.type = "rows" /\ Len(d.rows) > 0

\* bool(res and res[0].get("ok") == 1), and False when run_query raised.
HealthValue(d) ==
    IF d.type = "rows"
    THEN /\ Len(d.rows) > 0
         /\ "ok" \in DOMAIN d.rows[1]
         /\ d.rows[1]["ok"] = 1
    ELSE FALSE

(***************************************************************************)
(* query_logger: configuration and the log_query wrapper                   *)
(***************************************************************************)
DEFAULT_CONFIG ==
    [slow_query_threshold_ms |-> DefaultSlowThreshold,
     log_all_queries         |-> FALSE,
     include_params          |-> TRUE,
     include_results         |-> FALSE,
     redact_fields           |-> {W_password, W_token, W_secret, W_key},
     log_to_file             |-> TRUE,
     log_file                |-> "neo4j_slow_queries.log"]

\* Configurations configure_query_logging may have stored before the first query.
LogConfigs ==
    { DEFAULT_CONFIG,
      [DEFAULT_CONFIG EXCEPT !.log_all_queries = TRUE],
      [DEFAULT_CONFIG EXCEPT !.include_params = FALSE] }

\* Wall-clock time of an invocation spent outside time.sleep, in ms.
EngineTimes == {0, 100, 101, 501}

\* kwargs.get("query_name", "unnamed")
LoggerQueryName(query_name) == IF query_name = Absent THEN "unnamed" ELSE query_name

\* any(field.lower() in k.lower() for field in config["redact_fields"])
MatchesDenylist(k, fields) == \E f \in fields : IsSubstring(Lower(f), Lower(k))

\* redacted_params of the wrapper; the empty mapping stands for None.
RedactedParams(config, params) ==
    IF config.include_params /\ DOMAIN params # {}
    THEN [k \in DOMAIN params |->
            IF MatchesDenylist(k, config.redact_fields) THEN REDACTED ELSE params[k]]
    ELSE EmptyParams

RECURSIVE SumSeq(_)
SumSeq(q) == IF q = <<>> THEN 0 ELSE Head(q) + SumSeq(Tail(q))

\* The context dictionary once the inner call is over (result_count -1: not set).
Context(config, i, elapsed_ms, res) ==
    [query_name      |-> LoggerQueryName(i.query_name),
     write_operation |-> i.write_kw,
     params          |-> RedactedParams(config, i.params),
     elapsed_ms      |-> elapsed_ms,
     success         |-> res.type = "rows",
     error           |-> IF res.type = "error" THEN res.error.text ELSE NoText,
     error_type      |-> IF res.type = "error" THEN "Neo4jQueryError" ELSE "",
     result_count    |-> IF res.type = "rows" /\ config.include_results
                            /\ Len(res.rows) > 0
                         THEN Len(res.rows) ELSE -1]

NoContext == [query_name |-> "", write_operation |-> FALSE, params |-> EmptyParams,
              elapsed_ms |-> 0, success |-> FALSE, error |-> NoText,
              error_type |-> "", result_count |-> -1]

\* Variant: a call that takes exactly the threshold counts as slow.
IsSlow_AtLeast(config, elapsed_ms) == elapsed_ms >= config.slow_query_threshold_ms

\* is_slow = elapsed_ms > config["slow_query_threshold_ms"]
IsSlow(config, elapsed_ms) == elapsed_ms > config.slow_query_threshold_ms

\* The records the wrapper hands to query_logger for one finished inner call.
LogRecords(config, i, elapsed_ms, res) ==
    LET ctx  == Context(config, i, elapsed_ms, res)
        slow == IsSlow(config, elapsed_ms)
        qn   == LoggerQueryName(i.query_name)
    IN IF res.type = "error"
       THEN << [level |-> "ERROR", prefix |-> "Neo4j Query Error", query_name |-> qn,
                slow |-> FALSE, elapsed_ms |-> elapsed_ms, query |-> "",
                error |-> res.error.text, has_context |-> TRUE, context |-> ctx] >>
       ELSE IF slow \/ config.log_all_queries
            THEN << [level |-> IF slow THEN "WARNING" ELSE "INFO",
                     prefix |-> "Neo4j Query", query_name |-> qn, slow |-> slow,
                     elapsed_ms |-> elapsed_ms, query |-> i.cypher,
                     error |-> NoText, has_context |-> TRUE, context |-> ctx] >>
                 \o (IF elapsed_ms > config.slow_query_threshold_ms * VerySlowFactor
                     THEN << [level |-> "WARNING", prefix |-> "Full slow query",
                              query_name |-> "", slow |-> FALSE, elapsed_ms |-> 0,
                              query |-> i.cypher, error |-> NoText,
                              has_context |-> FALSE, context |-> NoContext] >>
                     ELSE <<>>)
            ELSE <<>>

\* Variant: the wrapper swallows the error after logging it.
WrapperOutcome_Swallow(res) == IF res.type = "error" THEN Returned(<<>>) ELSE res

\* What the wrapper hands to its caller for the inner call's outcome res:
\* `return result` on the normal path, a bare `raise` in the except clause.
WrapperOutcome(res) == res

(***************************************************************************)
(* The log sink: lines written by the file handler and read back by        *)
(* get_slow_query_stats.  A line is its timestamp, its bracketed level and *)
(* the lexical pieces of its message; the piece MEMBERS stands for the     *)
(* members of one JSON object, whose value is the line's payload.          *)
(***************************************************************************)
CTX == "\"context\":"
LBRACE == "{"
RBRACE == "}"
MEMBERS == "<members>"

GoodTimestamp == "2024-05-01 10:00:00,123"
NoPayload == [k \in {} |-> 0]

\* str(error): the details joined by newlines.
ErrorTokens(text) ==
    <<text.message, text.detail, "Query:", text.query>>
    \o (IF text.cypher # "" THEN <<"Cypher:", text.cypher>> ELSE <<>>)
    \o (IF text.has_params THEN <<"Params:", LBRACE, "<params>", RBRACE>> ELSE <<>>)
    \o (IF text.guidance # <<>> THEN <<"Guidance:">> \o text.guidance ELSE <<>>)

\* The message string the wrapper builds for a record.
MessageTokens(rec) ==
    CASE rec.prefix = "Neo4j Query Error" ->
            <<rec.prefix, rec.query_name, ToString(rec.elapsed_ms), "ms">>
            \o ErrorTokens(rec.error)
      [] rec.prefix = "Neo4j Query" ->
            <<rec.prefix, rec.query_name>>
            \o (IF rec.slow THEN <<"(SLOW)">> ELSE <<>>)
            \o <<ToString(rec.elapsed_ms), "ms", rec.query>>
      [] OTHER -> <<rec.prefix, rec.query>>

\* logging.Formatter('%(asctime)s [%(levelname)s] %(message)s'): the record's
\* extra attribute `context` is not among the fields the format names.
FormatLine(rec) ==
    [ts      |-> GoodTimestamp,
     level   |-> rec.level,
     tokens  |-> MessageTokens(rec),
     payload |-> NoPayload]

\* Index of the first occurrence of piece in tokens, 0 when there is none.
IndexOf(tokens, piece) ==
    IF \E i \in 1..Len(tokens) : tokens[i] = piece
    THEN CHOOSE i \in 1..Len(tokens) :
            tokens[i] = piece /\ \A j \in 1..(i - 1) : tokens[j] # piece
    ELSE 0

\* line.split('"context":')[1].strip(): what lies between the first and the
\* second occurrence of the token (or the end of the line).
AfterContext(tokens) ==
    LET i == IndexOf(tokens, CTX)
        rest == SubSeq(tokens, i + 1, Len(tokens))
        j == IndexOf(rest, CTX)
    IN IF j = 0 THEN rest ELSE SubSeq(rest, 1, j - 1)

\* Variant: the trailing brace is kept.
StripBrace_Never(ctx) == ctx

\* if context_str.endswith('}'): context_str = context_str[:-1]
StripBrace(ctx) ==
    IF Len(ctx) > 0 /\ ctx[Len(ctx)] = RBRACE THEN SubSeq(ctx, 1, Len(ctx) - 1) ELSE ctx

\* json.loads succeeds on exactly one complete object.
JsonValid(ctx) == ctx = <<LBRACE, MEMBERS, RBRACE>>

\* The context get_slow_query_stats extracts from a line: ok is FALSE when the
\* token is absent or json.loads raises (the line is skipped).
ParseLine(line) ==
    IF IndexOf(line.tokens, CTX) = 0
    THEN [ok |-> FALSE, context |-> NoPayload]
    ELSE LET ctx == StripBrace(AfterContext(line.tokens))
         IN IF JsonValid(ctx)
            THEN [ok |-> TRUE, context |-> line.payload]
            ELSE [ok |-> FALSE, context |-> NoPayload]

(***************************************************************************)
(* State machine                                                           *)
(***************************************************************************)
NoInvocation ==
    [cypher |-> "", params |-> EmptyParams, query_name |-> Absent, write |-> FALSE,
     write_kw |-> FALSE, max_retries |-> 0, retry_backoff |-> 0]

\* Arguments of a direct run_query call; write is passed by keyword.
Invocations ==
    [cypher : {TestQuery}, params : ParamChoices, query_name : QueryNames,
     write : {TRUE}, write_kw : {TRUE},
     max_retries : 0..MaxRetriesBound, retry_backoff : BackoffChoices]
    \cup
    [cypher : {TestQuery}, params : ParamChoices, query_name : QueryNames,
     write : {FALSE}, write_kw : {FALSE},
     max_retries : 0..MaxRetriesBound, retry_backoff : BackoffChoices]

\* self.run_query("RETURN 1 AS ok"): every other argument takes its default.
HealthInvocation ==
    [cypher |-> HealthQuery, params |-> EmptyParams, query_name |-> Absent,
     write |-> FALSE, write_kw |-> FALSE, max_retries |-> DefaultMaxRetries,
     retry_backoff |-> DefaultRetryBackoff]

SvcInit ==
    /\ configured \in BOOLEAN
    /\ driver = 0
    /\ driversCreated = 0
    /\ closeCalls = 0
    /\ closed = FALSE
    /\ logConfig \in LogConfigs
    /\ caller = "none"
    /\ inv = NoInvocation
    /\ pc = "idle"
    /\ attempt = 0
    /\ sessionsOpen = 0
    /\ sessionsOpened = 0
    /\ runs = 0
    /\ transientFails = 0
    /\ lastOutcome = NoOutcome
    /\ sleeps = <<>>
    /\ outcome = NoResult
    /\ emitted = <<>>
    /\ delivered = NoResult
    /\ healthResult = "none"
    /\ elapsed = -1

GdIdle ==
    /\ tpc = [t \in 1..NumThreads |-> "idle"]
    /\ lockOwner = 0
    /\ got = [t \in 1..NumThreads |-> 0]
    /\ tookLock = [t \in 1..NumThreads |-> FALSE]
    /\ lateArrival = [t \in 1..NumThreads |-> FALSE]

NoArgs == [min_time_ms |-> 0, group_by |-> "", top_n |-> 0]
NoStats == [k \in {} |-> 0]

AnIdle ==
    /\ apc = "idle"
    /\ logExists = FALSE
    /\ logFile = <<>>
    /\ anArgs = NoArgs
    /\ scanPos = 0
    /\ stats = NoStats
    /\ groupOrder = <<>>
    /\ anResult = <<>>

NoRaw == [numeric |-> FALSE, value |-> 0]
NoRequest == [view |-> "", q |-> "", item_type |-> "", skip |-> NoRaw, limit |-> NoRaw]
NoPage == [skip |-> 0, limit |-> 0]
NoResponse == [kind |-> "none", status |-> 0, code |-> "", count |-> 0, total |-> 0]

ViewIdle ==
    /\ vpc = "idle"
    /\ vReq = NoRequest
    /\ vPage = NoPage
    /\ vTotal = 0
    /\ vFailed = FALSE
    /\ vResponse = NoResponse

\* A log file: the directory the relative name was resolved against.
LogPath(dir, name) == [dir |-> dir, name |-> name]
LogPaths == {LogPath(d, "neo4j_slow_queries.log") : d \in {"BASE_DIR", "cwd"}}

NoLocal == [set |-> FALSE, request_path |-> "", request_method |-> "",
            request_id |-> "", user_id |-> "None"]
NoEmit == [happened |-> FALSE, appended |-> [f \in LogPaths |-> 0],
           in_request |-> FALSE, context |-> NoLocal]

LgIdle ==
    /\ cfgOverrides = <<>>
    /\ handlers = <<>>
    /\ fileLines = [f \in LogPaths |-> 0]
    /\ emits = 0
    /\ lastEmit = NoEmit
    /\ tlocal = NoLocal
    /\ mpc = "idle"
    /\ requests = 0
    /\ mwOutcome = "none"

SOURCE_TYPES == {"Topic", "Thought", "Quote", "Passage"}

NoSync == [op |-> "none", force |-> FALSE, failed |-> FALSE, returned |-> <<>>,
           before |-> {}, result |-> <<FALSE, 0>>]

SyIdle ==
    /\ topicTable = {}
    /\ thoughtTable = {}
    /\ topicSyncLog = <<>>
    /\ syClock = 0
    /\ syLast = NoSync

TgIdle ==
    /\ sourceItems = {}
    /\ nextPk = [t \in SOURCE_TYPES |-> 1]
    /\ tagSources = {}
    /\ edits = 0
    /\ tagSyncs = 0
    /\ tgLast = "none"

RestIdle == LgIdle /\ SyIdle /\ TgIdle

Init == SvcInit /\ GdIdle /\ AnIdle /\ ViewIdle /\ RestIdle

\* The caller starts an operation on the service.
Begin(op, i) ==
    /\ pc = "idle"
    /\ caller' = op
    /\ inv' = i
    /\ UNCHANGED <<attempt, sessionsOpen, sessionsOpened, runs, transientFails,
                   lastOutcome, sleeps, outcome, emitted, delivered, healthResult,
                   elapsed>>
    /\ UNCHANGED extVars

\* A caller invokes the decorated run_query; the wrapper reads its arguments
\* and run_query starts with attempt = 0.
CallRunQuery ==
    \E i \in Invocations :
        /\ Begin("direct", i)
        /\ pc' = "open"
        /\ UNCHANGED <<configured, driver, driversCreated, closeCalls, closed, logConfig>>

\* health() calls self.run_query("RETURN 1 AS ok").
CallHealth ==
    /\ Begin("health", HealthInvocation)
    /\ pc' = "open"
    /\ UNCHANGED <<configured, driver, driversCreated, closeCalls, closed, logConfig>>

\* close(): tears the handle down, if there is one, and forgets it.
Close ==
    /\ closeCalls < MaxCloses
    /\ Begin("close", NoInvocation)
    /\ pc' = "done"
    /\ closeCalls' = closeCalls + 1
    /\ closed' = (closed \/ driver # 0)
    /\ driver' = 0
    /\ UNCHANGED <<configured, driversCreated, logConfig>>

\* with self._open_session(): get_driver() returns the stored handle, or builds
\* one when none is stored and the configuration is complete, or raises
\* RuntimeError, which run_query's last except clause turns into a
\* Neo4jQueryError.
OpenSession ==
    /\ pc = "open"
    /\ LET g == get_driver(driver, driversCreated, configured)
       IN /\ driver' = g.driver
          /\ driversCreated' = g.created
          /\ IF g.raised
             THEN /\ lastOutcome' = [kind |-> "RuntimeError", rows |-> <<>>,
                                     text |-> <<>>]
                  /\ outcome' = Raised(FatalError(ExceptClause("RuntimeError"),
                                                  lastOutcome', inv))
                  /\ pc' = "wrapper_exit"
                  /\ UNCHANGED <<sessionsOpen, sessionsOpened>>
             ELSE /\ sessionsOpen' = sessionsOpen + 1
                  /\ sessionsOpened' = sessionsOpened + 1
                  /\ pc' = "run"
                  /\ UNCHANGED <<outcome, lastOutcome>>
    /\ UNCHANGED <<configured, closeCalls, closed, logConfig, caller, inv, attempt,
                   runs, transientFails, sleeps, emitted, delivered, healthResult,
                   elapsed>>
    /\ UNCHANGED extVars

\* session.run(cypher, params or {}) and the iteration of its result.
SessionRun ==
    /\ pc = "run"
    /\ \E o \in EngineOutcomes :
        /\ lastOutcome' = o
        /\ transientFails' = transientFails + (IF o.kind \in TransientKinds THEN 1 ELSE 0)
    /\ runs' = runs + 1
    /\ pc' = "exit"
    /\ UNCHANGED <<configured, driver, driversCreated, closeCalls, closed, logConfig,
                   caller, inv, attempt, sessionsOpen, sessionsOpened, sleeps,
                   outcome, emitted, delivered, healthResult>>
    /\ UNCHANGED <<elapsed, extVars>>

\* Variant: leaving the with block does not close the session.
SessionsAfterExit_Leak(open) == open

\* Session.__exit__ at the end of `with self._open_session() as session`.
SessionsAfterExit(open) == open - 1

\* The with block is left (the session closes); run_query returns the rows or
\* the matching except clause runs, up to its raise or its time.sleep call.
SessionExit ==
    /\ pc = "exit"
    /\ sessionsOpen' = SessionsAfterExit(sessionsOpen)
    /\ LET clause == ExceptClause(lastOutcome.kind)
           t == OnTransient(inv.write, attempt, inv.max_retries)
       IN IF lastOutcome.kind = "ok"
          THEN /\ outcome' = Returned(CollectRows(lastOutcome.rows))
               /\ pc' = "wrapper_exit"
               /\ UNCHANGED attempt
          ELSE IF clause = "transient"
               THEN /\ attempt' = t.attempt
                    /\ IF t.next = "sleep"
                       THEN /\ pc' = "sleep"
                            /\ UNCHANGED outcome
                       ELSE /\ pc' = "wrapper_exit"
                            /\ outcome' = Raised(TransientError(t.message, lastOutcome, inv))
               ELSE /\ outcome' = Raised(FatalError(clause, lastOutcome, inv))
                    /\ pc' = "wrapper_exit"
                    /\ UNCHANGED attempt
    /\ UNCHANGED <<configured, driver, driversCreated, closeCalls, closed, logConfig,
                   caller, inv, sessionsOpened, runs, transientFails, lastOutcome,
                   sleeps, emitted, delivered, healthResult>>
    /\ UNCHANGED <<elapsed, extVars>>

\* time.sleep(sleep_for), then the loop starts the next attempt.
Sleep ==
    /\ pc = "sleep"
    /\ sleeps' = Append(sleeps, SleepFor(inv.retry_backoff, attempt))
    /\ pc' = "open"
    /\ UNCHANGED <<configured, driver, driversCreated, closeCalls, closed, logConfig,
                   caller, inv, attempt, sessionsOpen, sessionsOpened, runs,
                   transientFails, lastOutcome, outcome, emitted, delivered,
                   healthResult>>
    /\ UNCHANGED <<elapsed, extVars>>

\* The wrapper measures the elapsed time, logs, and returns the result or
\* re-raises the exception.
WrapperExit ==
    /\ pc = "wrapper_exit"
    /\ \E t \in EngineTimes :
        /\ elapsed' = SumSeq(sleeps) + t
        /\ emitted' = LogRecords(logConfig, inv, elapsed', outcome)
    /\ delivered' = WrapperOutcome(outcome)
    /\ pc' = IF caller = "health" THEN "health_exit" ELSE "done"
    /\ UNCHANGED <<configured, driver, driversCreated, closeCalls, closed, logConfig,
                   caller, inv, attempt, sessionsOpen, sessionsOpened, runs,
                   transientFails, lastOutcome, sleeps, outcome, healthResult>>
    /\ UNCHANGED extVars

\* health() returns the boolean, or False from its except clause.
HealthExit ==
    /\ pc = "health_exit"
    /\ healthResult' = IF HealthValue(delivered) THEN "True" ELSE "False"
    /\ pc' = "done"
    /\ UNCHANGED <<configured, driver, driversCreated, closeCalls, closed, logConfig,
                   caller, inv, attempt, sessionsOpen, sessionsOpened, runs,
                   transientFails, lastOutcome, sleeps, outcome, emitted, delivered>>
    /\ UNCHANGED <<elapsed, extVars>>

\* The caller is done with the operation's result and drops it; the locals of
\* the finished call are gone.
Forget ==
    /\ pc = "done"
    /\ pc' = "idle"
    /\ caller' = "none"
    /\ inv' = NoInvocation
    /\ attempt' = 0
    /\ sessionsOpen' = 0
    /\ sessionsOpened' = 0
    /\ runs' = 0
    /\ transientFails' = 0
    /\ lastOutcome' = NoOutcome
    /\ sleeps' = <<>>
    /\ outcome' = NoResult
    /\ emitted' = <<>>
    /\ delivered' = NoResult
    /\ healthResult' = "none"
    /\ elapsed' = -1
    /\ UNCHANGED <<configured, driver, driversCreated, closeCalls, closed, logConfig>>
    /\ UNCHANGED extVars

Next ==
    \/ CallRunQuery
    \/ CallHealth
    \/ Close
    \/ OpenSession
    \/ SessionRun
    \/ SessionExit
    \/ Sleep
    \/ WrapperExit
    \/ HealthExit
    \/ Forget

Spec == Init /\ [][Next]_vars

\* One direct run_query invocation, every step of which is eventually taken:
\* the engine call and time.sleep return, and the thread keeps running.
TermInit == Init /\ logConfig = DEFAULT_CONFIG

TermNext ==
    \/ CallRunQuery
    \/ OpenSession
    \/ SessionRun
    \/ SessionExit
    \/ Sleep
    \/ WrapperExit

SpecTerminates ==
    /\ TermInit
    /\ [][TermNext]_vars
    /\ WF_vars(OpenSession)
    /\ WF_vars(SessionRun)
    /\ WF_vars(SessionExit)
    /\ WF_vars(Sleep)
    /\ WF_vars(WrapperExit)

(***************************************************************************)
(* Concurrent callers of get_driver() on the shared service                *)
(* (double-checked locking under Neo4jService._lock)                       *)
(***************************************************************************)
Threads == 1..NumThreads

\* Variant: the handle is not looked at again once the lock is held.
SecondCheck_Skipped(drv) == FALSE

\* `if self._driver:` before the lock is taken.
FirstCheck(drv) == drv # 0

\* `if self._driver:` inside `with self._lock`.
SecondCheck(drv) == drv # 0

GdFrame ==
    UNCHANGED <<configured, closeCalls, closed, logConfig, caller, inv, pc, attempt,
                sessionsOpen, sessionsOpened, runs, transientFails, lastOutcome,
                sleeps, outcome, emitted, delivered, healthResult, elapsed, anVars,
                viewVars, restVars>>

\* A thread calls get_driver().
GdCall(t) ==
    /\ tpc[t] = "idle"
    /\ tpc' = [tpc EXCEPT ![t] = "check1"]
    /\ lateArrival' = [lateArrival EXCEPT ![t] = (driver # 0)]
    /\ UNCHANGED <<driver, driversCreated, lockOwner, got, tookLock>>
    /\ GdFrame

\* The unlocked check: return the stored handle or go for the lock.
GdFirstCheck(t) ==
    /\ tpc[t] = "check1"
    /\ IF FirstCheck(driver)
       THEN /\ got' = [got EXCEPT ![t] = driver]
            /\ tpc' = [tpc EXCEPT ![t] = "done"]
       ELSE /\ tpc' = [tpc EXCEPT ![t] = "acquire"]
            /\ UNCHANGED got
    /\ UNCHANGED <<driver, driversCreated, lockOwner, tookLock, lateArrival>>
    /\ GdFrame

\* with self._lock: blocks while another thread holds it.
GdAcquire(t) ==
    /\ tpc[t] = "acquire"
    /\ lockOwner = 0
    /\ lockOwner' = t
    /\ tookLock' = [tookLock EXCEPT ![t] = TRUE]
    /\ tpc' = [tpc EXCEPT ![t] = "check2"]
    /\ UNCHANGED <<driver, driversCreated, got, lateArrival>>
    /\ GdFrame

\* The check under the lock: return the handle another thread stored, raise
\* on incomplete configuration, or go on to build the handle.
GdSecondCheck(t) ==
    /\ tpc[t] = "check2"
    /\ IF SecondCheck(driver)
       THEN /\ got' = [got EXCEPT ![t] = driver]
            /\ lockOwner' = 0
            /\ tpc' = [tpc EXCEPT ![t] = "done"]
       ELSE IF ~configured
            THEN /\ got' = [got EXCEPT ![t] = -1]
                 /\ lockOwner' = 0
                 /\ tpc' = [tpc EXCEPT ![t] = "done"]
            ELSE /\ tpc' = [tpc EXCEPT ![t] = "create"]
                 /\ UNCHANGED <<got, lockOwner>>
    /\ UNCHANGED <<driver, driversCreated, tookLock, lateArrival>>
    /\ GdFrame

\* self._driver = GraphDatabase.driver(...); return self._driver; lock released.
GdCreate(t) ==
    /\ tpc[t] = "create"
    /\ driversCreated' = driversCreated + 1
    /\ driver' = driversCreated + 1
    /\ got' = [got EXCEPT ![t] = driver']
    /\ lockOwner' = 0
    /\ tpc' = [tpc EXCEPT ![t] = "done"]
    /\ UNCHANGED <<tookLock, lateArrival>>
    /\ GdFrame

GdInit == SvcInit /\ GdIdle /\ AnIdle /\ ViewIdle /\ RestIdle

GdNext ==
    \E t \in Threads :
        \/ GdCall(t)
        \/ GdFirstCheck(t)
        \/ GdAcquire(t)
        \/ GdSecondCheck(t)
        \/ GdCreate(t)

\* Every thread calls get_driver() once, in any interleaving.
SpecGetDriver == GdInit /\ [][GdNext]_vars

(***************************************************************************)
(* get_slow_query_stats: one call scanning a log file                      *)
(***************************************************************************)
MaxLogLines == 4

BadTimestamp == "01/05/2024 10:00"
LaterTimestamp == "2024-05-02 09:30:00,000"

\* datetime.strptime(s, "%Y-%m-%d %H:%M:%S,%f") succeeds.
StrptimeOk(s) == s \in {GoodTimestamp, LaterTimestamp}

\* timestamp.isoformat()
IsoFormat(s) ==
    CASE s = GoodTimestamp  -> "2024-05-01T10:00:00.123000"
      [] s = LaterTimestamp -> "2024-05-02T09:30:00"
      [] OTHER              -> "None"

\* line.split(' [')[0]: the text before the bracketed level; a line without
\* one is returned whole, message included.
TimestampStr(line) == IF line.level # "" THEN line.ts ELSE "<whole line>"

\* Message pieces of a line whose context block is one member of an outer
\* JSON object, and of a line whose context block ends the line bare.
WrappedTokens == <<"Neo4j Query", LBRACE, CTX, LBRACE, MEMBERS, RBRACE, RBRACE>>
BareTokens == <<"Neo4j Query", CTX, LBRACE, MEMBERS, RBRACE>>
PlainTokens == <<"Full slow query:", TestQuery>>

LogLine(ts, level, tokens, payload) ==
    [ts |-> ts, level |-> level, tokens |-> tokens, payload |-> payload]

\* Lines a log file may hold.
LineChoices ==
    { LogLine(GoodTimestamp, "WARNING", WrappedTokens,
              [query_name |-> "a", elapsed_ms |-> 300, request_path |-> "/api/topics"]),
      LogLine(LaterTimestamp, "WARNING", WrappedTokens,
              [query_name |-> "b", elapsed_ms |-> 300]),
      LogLine(GoodTimestamp, "INFO", WrappedTokens,
              [query_name |-> "a", elapsed_ms |-> 100]),
      LogLine(GoodTimestamp, "INFO", WrappedTokens,
              [query_name |-> "b", elapsed_ms |-> 50]),
      LogLine(GoodTimestamp, "WARNING", PlainTokens, NoPayload),
      LogLine(GoodTimestamp, "WARNING", BareTokens,
              [query_name |-> "a", elapsed_ms |-> 300]),
      LogLine(BadTimestamp, "WARNING", WrappedTokens,
              [query_name |-> "b", elapsed_ms |-> 300]),
      LogLine(GoodTimestamp, "", WrappedTokens,
              [query_name |-> "a", elapsed_ms |-> 300]) }

Logs == UNION { [1..n -> LineChoices] : n \in 0..MaxLogLines }

\* min_time_ms=None
NoneMs == -1
DefaultTopN == 10
ArgChoices ==
    [min_time_ms : {NoneMs}, group_by : {"query_name", "request_path"},
     top_n : {1, DefaultTopN}]

\* if min_time_ms is None: min_time_ms = config["slow_query_threshold_ms"]
MinTime(args, config) ==
    IF args.min_time_ms = NoneMs THEN config.slow_query_threshold_ms
    ELSE args.min_time_ms

\* context.get(key, default)
ContextGet(context, key, default) ==
    IF key \in DOMAIN context THEN context[key] ELSE default

\* float('inf')
Inf == -1
MinOf(a, b) == IF a = Inf THEN b ELSE IF b < a THEN b ELSE a
MaxOf(a, b) == IF b > a THEN b ELSE a

\* total_time_ms / count, kept as the exact quotient.
Avg(total, count) == [num |-> total, den |-> count]
AvgLess(x, y) == x.num * y.den < y.num * x.den

NewGroup ==
    [count |-> 0, total_time_ms |-> 0, avg_time_ms |-> Avg(0, 1), max_time_ms |-> 0,
     min_time_ms |-> Inf, last_occurred |-> "None", examples |-> <<>>]

\* list.sort(key=..., reverse=True): descending and stable, on a list of
\* [key, item] pairs.  InsertDesc puts x behind every pair whose key is not
\* less than x's.
InsertDesc(sorted, x) ==
    LET k == Cardinality({i \in 1..Len(sorted) : ~AvgLess(sorted[i].key, x.key)})
    IN SubSeq(sorted, 1, k) \o <<x>> \o SubSeq(sorted, k + 1, Len(sorted))

RECURSIVE SortDesc(_)
SortDesc(pairs) ==
    IF pairs = <<>> THEN <<>>
    ELSE InsertDesc(SortDesc(SubSeq(pairs, 1, Len(pairs) - 1)), pairs[Len(pairs)])

Items(pairs) == [i \in 1..Len(pairs) |-> pairs[i].item]

\* examples.sort(key=lambda x: x.get("elapsed_ms", 0), reverse=True)
SortByElapsed(examples) ==
    Items(SortDesc([i \in 1..Len(examples) |->
                      [key  |-> Avg(ContextGet(examples[i], "elapsed_ms", 0), 1),
                       item |-> examples[i]]]))

\* Store example if it's one of the slowest.
UpdateExamples(examples, context, elapsed_ms) ==
    IF Len(examples) < 3 THEN Append(examples, context)
    ELSE IF elapsed_ms > ContextGet(examples[Len(examples)], "elapsed_ms", 0)
         THEN SortByElapsed([examples EXCEPT ![Len(examples)] = context])
         ELSE examples

\* The updates of one contributing line to its group.
UpdateGroup(g, context, line) ==
    LET elapsed_ms == ContextGet(context, "elapsed_ms", 0)
        total == g.total_time_ms + elapsed_ms
    IN [count         |-> g.count + 1,
        total_time_ms |-> total,
        avg_time_ms   |-> Avg(total, g.count + 1),
        max_time_ms   |-> MaxOf(g.max_time_ms, elapsed_ms),
        min_time_ms   |-> MinOf(g.min_time_ms, elapsed_ms),
        last_occurred |-> IF StrptimeOk(TimestampStr(line))
                          THEN IsoFormat(TimestampStr(line))
                          ELSE g.last_occurred,
        examples      |-> UpdateExamples(g.examples, context, elapsed_ms)]

\* result = [{"name": k, **v} for k, v in stats.items()]
ResultItems(st, order) == [i \in 1..Len(order) |-> [name |-> order[i]] @@ st[order[i]]]

\* Variant: the list is left in iteration order.
SortByAvg_None(items) == items

\* result.sort(key=lambda x: x["avg_time_ms"], reverse=True)
SortByAvg(items) ==
    Items(SortDesc([i \in 1..Len(items) |->
                      [key |-> items[i].avg_time_ms, item |-> items[i]]]))

\* result[:top_n]
Take(items, n) == SubSeq(items, 1, IF n < Len(items) THEN n ELSE Len(items))

AnFrame == UNCHANGED <<svcVars, gdVars, viewVars, restVars>>

\* Entry: defaults, then the os.path.exists test.
AnOpen ==
    /\ apc = "start"
    /\ IF logExists
       THEN apc' = "scan" /\ scanPos' = 1
       ELSE apc' = "done" /\ UNCHANGED scanPos
    /\ UNCHANGED <<logExists, logFile, anArgs, stats, groupOrder, anResult>>
    /\ AnFrame

\* One iteration of `for line in f`.
AnScanLine ==
    /\ apc = "scan"
    /\ scanPos <= Len(logFile)
    /\ LET line == logFile[scanPos]
           p == ParseLine(line)
       IN IF ~p.ok
          THEN UNCHANGED <<stats, groupOrder>>
          ELSE IF ContextGet(p.context, "elapsed_ms", 0) < MinTime(anArgs, logConfig)
               THEN UNCHANGED <<stats, groupOrder>>
               ELSE LET group_key == ContextGet(p.context, anArgs.group_by, "unknown")
                        seen == group_key \in DOMAIN stats
                        g == IF seen THEN stats[group_key] ELSE NewGroup
                    IN /\ stats' = [k \in DOMAIN stats \cup {group_key} |->
                                        IF k = group_key
                                        THEN UpdateGroup(g, p.context, line)
                                        ELSE stats[k]]
                       /\ groupOrder' = IF seen THEN groupOrder
                                        ELSE Append(groupOrder, group_key)
    /\ scanPos' = scanPos + 1
    /\ UNCHANGED <<apc, logExists, logFile, anArgs, anResult>>
    /\ AnFrame

\* After the loop: build the list, sort it, cut it to top_n, return.
AnFinish ==
    /\ apc = "scan"
    /\ scanPos > Len(logFile)
    /\ anResult' = Take(SortByAvg(ResultItems(stats, groupOrder)), anArgs.top_n)
    /\ apc' = "done"
    /\ UNCHANGED <<logExists, logFile, anArgs, scanPos, stats, groupOrder>>
    /\ AnFrame

AnStart ==
    /\ apc = "start"
    /\ logExists \in BOOLEAN
    /\ logFile \in (IF logExists THEN Logs ELSE {<<>>})
    /\ anArgs \in ArgChoices
    /\ scanPos = 0
    /\ stats = NoStats
    /\ groupOrder = <<>>
    /\ anResult = <<>>

AnInit ==
    /\ SvcInit /\ configured /\ logConfig = DEFAULT_CONFIG
    /\ GdIdle /\ ViewIdle /\ RestIdle /\ AnStart

AnNext ==
    \/ AnOpen
    \/ AnScanLine
    \/ AnFinish

SpecAnalyzer == AnInit /\ [][AnNext]_vars

(***************************************************************************)
(* api.py: one request to TopicsView, SearchView or ItemDetailView         *)
(***************************************************************************)
MaxViewRows == 2

DefaultSkip == 0
DefaultLimit == 25
LimitCap == 100

HTTP_200_OK == 200
HTTP_400_BAD_REQUEST == 400
HTTP_404_NOT_FOUND == 404
HTTP_500_INTERNAL_SERVER_ERROR == 500

\* A raw query-string value: numeric is FALSE when int() raises ValueError.
Raw(n) == [numeric |-> TRUE, value |-> n]
NotANumber == [numeric |-> FALSE, value |-> 0]
RawSkips == {Raw(DefaultSkip), Raw(-5), NotANumber}
RawLimits == {Raw(DefaultLimit), Raw(500)}

\* parse_pagination._int
ParseInt(raw, default) ==
    IF raw.numeric THEN (IF raw.value > 0 THEN raw.value ELSE 0) ELSE default

parse_pagination(req) ==
    LET skip == ParseInt(req.skip, DefaultSkip)
        limit == ParseInt(req.limit, DefaultLimit)
    IN [skip |-> skip, limit |-> IF limit > LimitCap THEN LimitCap ELSE limit]

ItemLabels == {"TOPIC", "THOUGHT", "QUOTE", "PASSAGE"}

\* item_type.upper()
Upper(item_type) ==
    CASE item_type = "topic" -> "TOPIC"
      [] item_type = "Quote" -> "QUOTE"
      [] OTHER               -> "WIDGET"

Requests ==
    [view : {"TopicsView"}, q : {""}, item_type : {""}, skip : RawSkips, limit : RawLimits]
    \cup [view : {"SearchView"}, q : {"", "grace"}, item_type : {""},
          skip : RawSkips, limit : RawLimits]
    \cup [view : {"ItemDetailView"}, q : {""}, item_type : {"topic", "Quote", "widget"},
          skip : {NoRaw}, limit : {NoRaw}]

\* What a run_query call gives the code that called it: n rows, or a raised
\* Neo4jQueryError with one of the messages of a read (the views never pass
\* write).
RunQueryOutcomes ==
    [type : {"rows"}, n : 0..MaxViewRows, message : {""}]
    \cup [type : {"error"}, n : {0},
          message : {"Max retries exceeded", "Syntax error", "Authentication failed",
                     "Unexpected error"}]

\* error_response(code, message, http_status)
error_response(code, http_status) ==
    [kind |-> "response", status |-> http_status, code |-> code, count |-> 0, total |-> 0]

\* JsonResponse(envelope(data, total=total, ...))
envelope(count, total) ==
    [kind |-> "response", status |-> HTTP_200_OK, code |-> "", count |-> count,
     total |-> total]

\* The exception left get() unhandled.
Unhandled(name) ==
    [kind |-> "exception", status |-> 0, code |-> name, count |-> 0, total |-> 0]

ViewFrame == UNCHANGED <<svcVars, gdVars, anVars, restVars>>

\* get() up to its first graph query: argument checks and pagination.
ViewEntry ==
    /\ vpc = "start"
    /\ CASE vReq.view = "SearchView" /\ vReq.q = "" ->
                /\ vResponse' = error_response("BAD_REQUEST", HTTP_400_BAD_REQUEST)
                /\ vpc' = "done"
                /\ UNCHANGED vPage
         [] vReq.view = "ItemDetailView" /\ Upper(vReq.item_type) \notin ItemLabels ->
                /\ vResponse' = error_response("BAD_TYPE", HTTP_400_BAD_REQUEST)
                /\ vpc' = "done"
                /\ UNCHANGED vPage
         [] vReq.view = "ItemDetailView" /\ Upper(vReq.item_type) \in ItemLabels ->
                /\ vpc' = "detail"
                /\ UNCHANGED <<vPage, vResponse>>
         [] OTHER ->
                /\ vPage' = parse_pagination(vReq)
                /\ vpc' = "count"
                /\ UNCHANGED vResponse
    /\ UNCHANGED <<vReq, vTotal, vFailed>>
    /\ ViewFrame

\* TopicsView / SearchView: the count query of get_all_topics / search_content,
\* inside the view's try.
ViewCountQuery ==
    /\ vpc = "count"
    /\ \E o \in RunQueryOutcomes :
        IF o.type = "error"
        THEN /\ vFailed' = TRUE
             /\ vResponse' = error_response("NEO4J_ERROR", HTTP_500_INTERNAL_SERVER_ERROR)
             /\ vpc' = "done"
             /\ UNCHANGED vTotal
        ELSE /\ vTotal' = o.n
             /\ vpc' = "list"
             /\ UNCHANGED <<vFailed, vResponse>>
    /\ UNCHANGED <<vReq, vPage>>
    /\ ViewFrame

\* TopicsView / SearchView: the data query, then the envelope.
ViewListQuery ==
    /\ vpc = "list"
    /\ \E o \in RunQueryOutcomes :
        IF o.type = "error"
        THEN /\ vFailed' = TRUE
             /\ vResponse' = error_response("NEO4J_ERROR", HTTP_500_INTERNAL_SERVER_ERROR)
        ELSE /\ vResponse' = envelope(o.n, vTotal)
             /\ UNCHANGED vFailed
    /\ vpc' = "done"
    /\ UNCHANGED <<vReq, vPage, vTotal>>
    /\ ViewFrame

\* ItemDetailView: rows = neo4j_service.run_query(cypher, {"id": item_id}),
\* with no try around it, then the response.
ViewDetailQuery ==
    /\ vpc = "detail"
    /\ \E o \in RunQueryOutcomes :
        IF o.type = "error"
        THEN /\ vFailed' = TRUE
             /\ vResponse' = Unhandled("Neo4jQueryError")
        ELSE /\ vResponse' = IF o.n = 0
                             THEN error_response("NOT_FOUND", HTTP_404_NOT_FOUND)
                             ELSE envelope(1, 0)
             /\ UNCHANGED vFailed
    /\ vpc' = "done"
    /\ UNCHANGED <<vReq, vPage, vTotal>>
    /\ ViewFrame

ViewStart ==
    /\ vpc = "start"
    /\ vReq \in Requests
    /\ vPage = NoPage
    /\ vTotal = 0
    /\ vFailed = FALSE
    /\ vResponse = NoResponse

ViewInit ==
    /\ SvcInit /\ configured /\ logConfig = DEFAULT_CONFIG
    /\ GdIdle /\ AnIdle /\ RestIdle /\ ViewStart

ViewNext ==
    \/ ViewEntry
    \/ ViewCountQuery
    \/ ViewListQuery
    \/ ViewDetailQuery

SpecViews == ViewInit /\ [][ViewNext]_vars

(***************************************************************************)
(* query_logger.py: configure_query_logging, the handlers of the           *)
(* neo4j.queries logger, and QueryLoggerMiddleware on one thread           *)
(***************************************************************************)
MaxConfigCalls == 2
MaxEmits == 2
MaxRequests == 2

NoOverrides == [k \in {} |-> 0]

\* The config argument of a call: None, or a dict of overrides.
OverrideChoices ==
    { NoOverrides,
      [slow_query_threshold_ms |-> 250],
      [log_all_queries |-> TRUE],
      [log_to_file |-> FALSE] }

\* {**DEFAULT_CONFIG, **(config or {})}
Merge(defaults, overrides) ==
    [k \in DOMAIN defaults \cup DOMAIN overrides |->
        IF k \in DOMAIN overrides THEN overrides[k] ELSE defaults[k]]

\* The path the FileHandler is opened on: under BASE_DIR, or the fallback in
\* the current directory when os.makedirs raises.
ResolveLogFile(log_file, makedirs_ok) ==
    IF makedirs_ok THEN LogPath("BASE_DIR", log_file)
    ELSE LogPath("cwd", "neo4j_slow_queries.log")

\* query_logger.addHandler(file_handler), file_handler a new FileHandler.
AttachHandler(hs, path) == Append(hs, path)

\* Lines one logged record appends to file f: one per attached handler on f.
Appended(hs, f) == Cardinality({i \in 1..Len(hs) : hs[i] = f})

\* The request fields the wrapper copies into the context when _local has
\* the attribute request_path.
RequestContext(local) == IF local.set THEN local ELSE NoLocal

HttpRequests ==
    [set : {TRUE}, request_path : {"/api/topics/", "/api/search/"},
     request_method : {"GET"}, request_id : {"req-1"}, user_id : {"7"}]

LgFrame ==
    UNCHANGED <<configured, driver, driversCreated, closeCalls, closed, caller, inv, pc,
                attempt, sessionsOpen, sessionsOpened, runs, transientFails,
                lastOutcome, sleeps, outcome, emitted, delivered, healthResult,
                elapsed, gdVars, anVars, viewVars, syVars, tgVars>>

\* configure_query_logging(config)
Configure ==
    /\ Len(cfgOverrides) < MaxConfigCalls
    /\ \E ov \in OverrideChoices, makedirs_ok \in BOOLEAN :
        LET effective_config == Merge(DEFAULT_CONFIG, ov)
        IN /\ handlers' = IF effective_config.log_to_file
                          THEN AttachHandler(handlers,
                                   ResolveLogFile(effective_config.log_file, makedirs_ok))
                          ELSE handlers
           /\ logConfig' = effective_config
           /\ cfgOverrides' = Append(cfgOverrides, ov)
    /\ UNCHANGED <<fileLines, emits, lastEmit, tlocal, mpc, requests, mwOutcome>>
    /\ LgFrame

\* The wrapper logs one record of a query run on the thread: the context
\* takes the request fields of _local, and every attached handler writes the
\* record to its file.
Emit ==
    /\ emits < MaxEmits
    /\ emits' = emits + 1
    /\ fileLines' = [f \in LogPaths |-> fileLines[f] + Appended(handlers, f)]
    /\ lastEmit' = [happened   |-> TRUE,
                    appended   |-> [f \in LogPaths |-> Appended(handlers, f)],
                    in_request |-> mpc = "in_request",
                    context    |-> RequestContext(tlocal)]
    /\ UNCHANGED <<cfgOverrides, handlers, tlocal, mpc, requests, mwOutcome, logConfig>>
    /\ LgFrame

\* __call__ up to self.get_response(request): the request fields are stored.
MwCall ==
    /\ mpc = "idle"
    /\ requests < MaxRequests
    /\ \E r \in HttpRequests : tlocal' = r
    /\ mpc' = "in_request"
    /\ requests' = requests + 1
    /\ UNCHANGED <<cfgOverrides, handlers, fileLines, emits, lastEmit, mwOutcome,
                   logConfig>>
    /\ LgFrame

\* get_response returns: the fields are deleted and the response returned.
MwReturn ==
    /\ mpc = "in_request"
    /\ tlocal' = NoLocal
    /\ mpc' = "idle"
    /\ mwOutcome' = "response"
    /\ UNCHANGED <<cfgOverrides, handlers, fileLines, emits, lastEmit, requests,
                   logConfig>>
    /\ LgFrame

\* get_response raises: the exception leaves __call__ at that line.
MwRaise ==
    /\ mpc = "in_request"
    /\ mpc' = "idle"
    /\ mwOutcome' = "raised"
    /\ UNCHANGED <<cfgOverrides, handlers, fileLines, emits, lastEmit, requests, tlocal,
                   logConfig>>
    /\ LgFrame

LgInit ==
    /\ SvcInit /\ configured /\ logConfig = DEFAULT_CONFIG
    /\ GdIdle /\ AnIdle /\ ViewIdle /\ RestIdle

LgNext ==
    \/ Configure
    \/ Emit
    \/ MwCall
    \/ MwReturn
    \/ MwRaise

SpecLogging == LgInit /\ [][LgNext]_vars

(***************************************************************************)
(* The cache syncs of topics_app and thoughts_app: one call of             *)
(* sync_topics_from_neo4j or sync_thoughts_from_neo4j per step, over the   *)
(* rows its graph query returns or over the failure of that query.         *)
(***************************************************************************)
MaxSyncs == 2

\* A title is its prefix up to the first ": " (when it has one) and the rest.
T_ZERO == [id |-> "topic.ZERO", title |-> <<"Topic ZERO: THE NULL TOPIC">>,
           tags |-> <<>>, descriptions |-> <<[id |-> "", content |-> ""]>>]
T_VALID == [id |-> "topic.VALID", title |-> <<"Topic: ", "Valid Name">>,
            tags |-> <<"wisdom">>,
            descriptions |-> <<[id |-> "desc.VALID", content |-> "text"]>>]
T_PHANTOM == [id |-> "topic.PHANTOM", title |-> <<"Life">>,
              tags |-> <<>>, descriptions |-> <<>>]
T_NOID == [id |-> "", title |-> <<"Topic: ", "Nameless">>,
           tags |-> <<>>, descriptions |-> <<>>]

TH_STALE == [id |-> "thought.STALE", title |-> "Stale Thought", parent_id |-> "",
             contents |-> <<>>]
TH_VALID == [id |-> "thought.VALID", title |-> "Valid Thought",
             parent_id |-> "topic.ROOT",
             contents |-> <<[id |-> "content.VALID", content |-> "text"],
                            [id |-> "", content |-> ""]>>]
TH_NOID == [id |-> "", title |-> "Nameless", parent_id |-> "", contents |-> <<>>]

\* The rows of `rows' at the positions in S, in the order of the query.
RECURSIVE Pick(_, _)
Pick(rows, S) ==
    IF rows = <<>> THEN <<>>
    ELSE LET rest == Pick(Tail(rows), {i - 1 : i \in S \ {1}})
         IN IF 1 \in S THEN <<Head(rows)>> \o rest ELSE rest

\* What run_query can give get_all_topics: an exception, or the nodes the
\* graph holds at the time, ordered by level and alias.
TopicOutcomes ==
    {[failed |-> TRUE, rows |-> <<>>]} \cup
    {[failed |-> FALSE, rows |-> Pick(<<T_ZERO, T_VALID, T_PHANTOM, T_NOID>>, S)] :
        S \in SUBSET (1..4)}

ThoughtOutcomes ==
    {[failed |-> TRUE, rows |-> <<>>]} \cup
    {[failed |-> FALSE, rows |-> Pick(<<TH_STALE, TH_VALID, TH_NOID>>, S)] :
        S \in SUBSET (1..3)}

Range(s) == {s[i] : i \in DOMAIN s}

RECURSIVE SetToSeq(_)
SetToSeq(S) ==
    IF S = {} THEN <<>>
    ELSE LET x == CHOOSE y \in S : TRUE IN <<x>> \o SetToSeq(S \ {x})

\* _enhance_topic_data: descriptions without an id (the null of the OPTIONAL
\* MATCH) are dropped; the computed display fields are not read by the sync.
enhance_topic_data(topic) ==
    LET HasId(desc) == desc.id # ""
    IN [topic EXCEPT !.descriptions = SelectSeq(topic.descriptions, HasId)]

\* _get_topics_from_django: the cached topics as dictionaries with 'tags': []
\* and no 'descriptions' key.  Every row of the model has is_active = True.
get_topics_from_django(table) ==
    SetToSeq({[id |-> row.neo4j_id, title |-> row.title, tags |-> <<>>,
               descriptions |-> <<>>] : row \in table})

\* get_all_topics(use_cache=False, sync_if_missing=False)
get_all_topics(out, table) ==
    IF out.failed THEN get_topics_from_django(table)
    ELSE [i \in 1..Len(out.rows) |-> enhance_topic_data(out.rows[i])]

\* get_all_thoughts()
get_all_thoughts(out) == IF out.failed THEN <<>> ELSE out.rows

\* The rows a descriptions or contents list leaves behind: one per id given.
ChildRows(list) ==
    {[neo4j_id |-> c.id, content |-> c.content] : c \in {x \in Range(list) : x.id # ""}}

\* _sync_single_topic: update_or_create on neo4j_id, the TopicTag rows deleted
\* and recreated from tags, the Description rows made equal to descriptions.
sync_single_topic(table, topic_data, now) ==
    IF topic_data.id = "" THEN table
    ELSE {row \in table : row.neo4j_id # topic_data.id} \cup
         {[neo4j_id |-> topic_data.id, title |-> topic_data.title,
           last_synced |-> now, tags |-> Range(topic_data.tags),
           descriptions |-> ChildRows(topic_data.descriptions)]}

\* _sync_single_thought
sync_single_thought(table, thought_data, now) ==
    IF thought_data.id = "" THEN table
    ELSE {row \in table : row.neo4j_id # thought_data.id} \cup
         {[neo4j_id |-> thought_data.id, title |-> thought_data.title,
           parent_id |-> thought_data.parent_id, last_synced |-> now,
           contents |-> ChildRows(thought_data.contents)]}

\* The loop of sync_topics_from_neo4j over neo4j_topics.
RECURSIVE SyncTopicRows(_, _, _)
SyncTopicRows(table, rows, now) ==
    IF rows = <<>> THEN table
    ELSE SyncTopicRows(sync_single_topic(table, Head(rows), now), Tail(rows), now)

\* The loop of sync_thoughts_from_neo4j over neo4j_thoughts.
RECURSIVE SyncThoughtRows(_, _, _)
SyncThoughtRows(table, rows, now) ==
    IF rows = <<>> THEN table
    ELSE SyncThoughtRows(sync_single_thought(table, Head(rows), now), Tail(rows), now)

SyFrame == UNCHANGED <<svcVars, gdVars, anVars, viewVars, lgVars, tgVars>>

\* sync_topics_from_neo4j(force); within_hour: a successful sync is recent.
SyncTopics ==
    /\ syClock < MaxSyncs
    /\ \E force \in BOOLEAN, within_hour \in BOOLEAN, out \in TopicOutcomes :
        LET now == syClock + 1
            recent_sync == within_hour /\ \E i \in DOMAIN topicSyncLog : topicSyncLog[i]
            neo4j_topics == get_all_topics(out, topicTable)
        IN /\ syClock' = now
           /\ IF ~force /\ recent_sync
              THEN /\ topicTable' = topicTable
                   /\ topicSyncLog' = Append(topicSyncLog, FALSE)
                   /\ syLast' = [op |-> "topics_skipped", force |-> force,
                                 failed |-> FALSE, returned |-> <<>>,
                                 before |-> topicTable, result |-> <<FALSE, 0>>]
              ELSE /\ topicTable' = SyncTopicRows(topicTable, neo4j_topics, now)
                   /\ topicSyncLog' = Append(topicSyncLog, TRUE)
                   /\ syLast' = [op |-> "topics", force |-> force,
                                 failed |-> out.failed, returned |-> out.rows,
                                 before |-> topicTable,
                                 result |-> <<TRUE, Len(neo4j_topics)>>]
    /\ UNCHANGED thoughtTable
    /\ SyFrame

\* sync_thoughts_from_neo4j()
SyncThoughts ==
    /\ syClock < MaxSyncs
    /\ \E out \in ThoughtOutcomes :
        LET now == syClock + 1
            neo4j_thoughts == get_all_thoughts(out)
        IN /\ syClock' = now
           /\ thoughtTable' = SyncThoughtRows(thoughtTable, neo4j_thoughts, now)
           /\ syLast' = [op |-> "thoughts", force |-> FALSE, failed |-> out.failed,
                         returned |-> out.rows, before |-> thoughtTable,
                         result |-> <<TRUE, Len(neo4j_thoughts)>>]
    /\ UNCHANGED <<topicTable, topicSyncLog>>
    /\ SyFrame

SyInit == SvcInit /\ configured /\ logConfig = DEFAULT_CONFIG /\ GdIdle /\ AnIdle /\ ViewIdle /\ RestIdle

SyNext ==
    \/ SyncTopics
    \/ SyncThoughts

SpecSync == SyInit /\ [][SyNext]_vars

(***************************************************************************)
(* tags_app: TagSyncService.sync_tags over the Topic, Thought, Quote and   *)
(* Passage rows of the database, between creations and deletions of rows   *)
(* and of their tag rows.                                                  *)
(***************************************************************************)
MaxEdits == 5
MaxTagSyncs == 2

TagNames == {"Tag1", "Tag2"}

\* str(pk)
Str(pk) == <<"1", "2", "3", "4", "5", "6", "7", "8", "9">>[pk]

\* Quote has no tag model: quotes_app/models.py defines Quote and QuoteContent.
Taggable == SOURCE_TYPES \ {"Quote"}

OfType(rows, type) == {item \in rows : item.source_type = type}

\* update_or_create(source_type, source_id, defaults={name, tags})
UpdateOrCreate(sources, item) ==
    {rec \in sources : ~(rec.source_type = item.source_type
                         /\ rec.source_id = Str(item.pk))} \cup
    {[source_type |-> item.source_type, source_id |-> Str(item.pk),
      name |-> item.title, tags |-> item.tags]}

\* One of the four loops: the rows of a table that have tags, in turn.  st is
\* the pair of the TagSource rows and valid_ids.
RECURSIVE SyncLoop(_, _)
SyncLoop(st, rows) ==
    IF rows = <<>> THEN st
    ELSE LET item == Head(rows)
         IN IF item.tags # {}
            THEN SyncLoop([sources |-> UpdateOrCreate(st.sources, item),
                           valid_ids |-> st.valid_ids \cup
                               {<<item.source_type, Str(item.pk)>>}], Tail(rows))
            ELSE SyncLoop(st, Tail(rows))

\* TagSource.objects.exclude(id__in=valid_ids).delete()
CleanupOrphans_KeepAll(sources, valid_ids) == sources

CleanupOrphans(sources, valid_ids) ==
    {rec \in sources : <<rec.source_type, rec.source_id>> \in valid_ids}

TgFrame == UNCHANGED <<svcVars, gdVars, anVars, viewVars, lgVars, syVars>>

\* Topic.objects.create(title=...), and the same for the other three tables.
CreateItem ==
    /\ edits < MaxEdits
    /\ \E type \in SOURCE_TYPES :
        /\ sourceItems' = sourceItems \cup
               {[source_type |-> type, pk |-> nextPk[type], title |-> type, tags |-> {}]}
        /\ nextPk' = [nextPk EXCEPT ![type] = @ + 1]
    /\ edits' = edits + 1
    /\ tgLast' = "none"
    /\ UNCHANGED <<tagSources, tagSyncs>>
    /\ TgFrame

\* item.delete(): the tag rows go with the row (on_delete=CASCADE).
DeleteItem ==
    /\ edits < MaxEdits
    /\ \E item \in sourceItems : sourceItems' = sourceItems \ {item}
    /\ edits' = edits + 1
    /\ tgLast' = "none"
    /\ UNCHANGED <<nextPk, tagSources, tagSyncs>>
    /\ TgFrame

\* TopicTag.objects.create(topic=..., tag=...): (item, tag) is unique.
AddTag ==
    /\ edits < MaxEdits
    /\ \E item \in sourceItems, tag \in TagNames :
        /\ item.source_type \in Taggable
        /\ tag \notin item.tags
        /\ sourceItems' = (sourceItems \ {item}) \cup
               {[item EXCEPT !.tags = @ \cup {tag}]}
    /\ edits' = edits + 1
    /\ tgLast' = "none"
    /\ UNCHANGED <<nextPk, tagSources, tagSyncs>>
    /\ TgFrame

\* A tag row is deleted.
RemoveTag ==
    /\ edits < MaxEdits
    /\ \E item \in sourceItems :
        \E tag \in item.tags :
            sourceItems' = (sourceItems \ {item}) \cup
                {[item EXCEPT !.tags = @ \ {tag}]}
    /\ edits' = edits + 1
    /\ tgLast' = "none"
    /\ UNCHANGED <<nextPk, tagSources, tagSyncs>>
    /\ TgFrame

\* sync_tags(): prefetch_related('quote_tags') raises AttributeError as soon
\* as the Quote table has a row, after the Topic and Thought loops.
SyncTags ==
    /\ tagSyncs < MaxTagSyncs
    /\ LET start == [sources |-> tagSources, valid_ids |-> {}]
           topics == SyncLoop(start, SetToSeq(OfType(sourceItems, "Topic")))
           thoughts == SyncLoop(topics, SetToSeq(OfType(sourceItems, "Thought")))
           passages == SyncLoop(thoughts, SetToSeq(OfType(sourceItems, "Passage")))
       IN IF OfType(sourceItems, "Quote") # {}
          THEN /\ tagSources' = thoughts.sources
               /\ tgLast' = "raised"
          ELSE /\ tagSources' = CleanupOrphans(passages.sources, passages.valid_ids)
               /\ tgLast' = "completed"
    /\ tagSyncs' = tagSyncs + 1
    /\ UNCHANGED <<sourceItems, nextPk, edits>>
    /\ TgFrame

TgInit == SvcInit /\ configured /\ logConfig = DEFAULT_CONFIG /\ GdIdle /\ AnIdle /\ ViewIdle /\ RestIdle

TgNext ==
    \/ CreateItem
    \/ DeleteItem
    \/ AddTag
    \/ RemoveTag
    \/ SyncTags

SpecTags == TgInit /\ [][TgNext]_vars

(***************************************************************************)
(* Properties                                                              *)
(***************************************************************************)
\* The decorated run_query has returned or raised to its caller.
InvocationOver == caller \in {"direct", "health"} /\ pc \in {"health_exit", "done"}

RaisedWith(message) ==
    /\ delivered.type = "error"
    /\ delivered.error.text.message = message

\* C1: a write invocation whose engine call raises a transient error makes
\* exactly one execution attempt, never sleeps, and ends by raising the
\* Diagnostic Error "Write operation failed", whatever max_retries is.
C1_WriteTransientFailsFast ==
    (inv.write /\ lastOutcome.kind \in TransientKinds)
        => /\ runs = 1
           /\ sleeps = <<>>
           /\ pc \in {"exit", "wrapper_exit", "done"}
           /\ (InvocationOver => RaisedWith("Write operation failed"))

C1_Witness ==
    /\ InvocationOver
    /\ inv.write
    /\ inv.max_retries > 0
    /\ lastOutcome.kind \in TransientKinds
    /\ runs = 1
    /\ RaisedWith("Write operation failed")

\* C2: a read invocation on which every attempt raised a transient error has
\* made exactly max_retries + 1 attempts and max_retries sleeps when it ends,
\* and it ends by raising the Diagnostic Error "Max retries exceeded".
C2_ReadExhaustsRetries ==
    (InvocationOver /\ ~inv.write /\ runs >= 1 /\ transientFails = runs)
        => /\ runs = inv.max_retries + 1
           /\ Len(sleeps) = inv.max_retries
           /\ RaisedWith("Max retries exceeded")

C2_Witness ==
    /\ InvocationOver
    /\ ~inv.write
    /\ inv.max_retries >= 2
    /\ transientFails = runs
    /\ runs = inv.max_retries + 1
    /\ Len(sleeps) = inv.max_retries
    /\ RaisedWith("Max retries exceeded")

\* C3: the k-th backoff sleep of an invocation lasts retry_backoff * 2^(k-1):
\* the first lasts retry_backoff and each later one twice the one before it.
C3_BackoffDoubles ==
    \A k \in 1..Len(sleeps) :
        /\ sleeps[k] = inv.retry_backoff * (2 ^ (k - 1))
        /\ (k = 1 => sleeps[k] = inv.retry_backoff)
        /\ (k > 1 => sleeps[k] = 2 * sleeps[k - 1])

C3_Witness ==
    /\ ~inv.write
    /\ Len(sleeps) >= 2
    /\ sleeps[1] = inv.retry_backoff
    /\ sleeps[2] = 2 * inv.retry_backoff

\* C4: a read invocation whose first k attempts (1 <= k <= max_retries) fail
\* transiently and whose attempt k+1 succeeds returns exactly the rows of
\* attempt k+1 in the engine's order, after exactly k sleeps, with no error.
C4_RetryThenSuccess ==
    (InvocationOver /\ ~inv.write /\ lastOutcome.kind = "ok" /\ runs >= 2)
        => /\ transientFails = runs - 1
           /\ runs - 1 <= inv.max_retries
           /\ delivered.type = "rows"
           /\ delivered.rows = lastOutcome.rows
           /\ Len(sleeps) = runs - 1

C4_Witness ==
    /\ InvocationOver
    /\ ~inv.write
    /\ runs = 2
    /\ transientFails = 1
    /\ lastOutcome.kind = "ok"
    /\ Len(lastOutcome.rows) = 2
    /\ delivered = Returned(lastOutcome.rows)
    /\ Len(sleeps) = 1

\* C5: once the engine has raised an authentication failure, the invocation
\* neither sleeps nor attempts again, for either value of the write flag, and
\* it ends by raising the Diagnostic Error "Authentication failed".
C5_AuthFailsFast ==
    lastOutcome.kind = "AuthError"
        => /\ pc \in {"exit", "wrapper_exit", "health_exit", "done"}
           /\ (InvocationOver => RaisedWith("Authentication failed"))

C5_Witness ==
    /\ InvocationOver
    /\ ~inv.write
    /\ inv.max_retries > 0
    /\ lastOutcome.kind = "AuthError"
    /\ runs = 2
    /\ Len(sleeps) = 1
    /\ RaisedWith("Authentication failed")

\* The denylist of the specification: a key is sensitive when it contains one
\* of the words as a case-insensitive substring.
SensitiveKey(k) == \E w \in {W_password, W_secret, W_token, W_key} : IsSubstring(w, Lower(k))

\* str(error) shows the value params[k] of key k.
ShowsValue(text, params, k) ==
    /\ text.has_params
    /\ k \in DOMAIN text.params
    /\ text.params[k] = params[k]

\* C6: in the serialized message of a Diagnostic Error, the value of every
\* parameter whose key contains password, secret, token or key (as a
\* case-insensitive substring) is not shown in clear, and the value of every
\* other parameter is shown unredacted.
C6_ErrorRedactsDenylistedKeys ==
    outcome.type = "error"
        => \A k \in DOMAIN outcome.error.params :
              IF SensitiveKey(k)
              THEN ~ShowsValue(outcome.error.text, outcome.error.params, k)
              ELSE ShowsValue(outcome.error.text, outcome.error.params, k)

\* C7: no record the Query Logger emits for an invocation shows, in its
\* message (the error text included) or in its context, the value of a
\* parameter whose key matches the configured denylist.
C7_LogNeverShowsDenylistedValue ==
    \A n \in 1..Len(emitted) :
        \A k \in DOMAIN inv.params :
            MatchesDenylist(k, logConfig.redact_fields)
                => /\ ~ShowsValue(emitted[n].error, inv.params, k)
                   /\ ~ShowsValue(emitted[n].context.error, inv.params, k)
                   /\ ~(k \in DOMAIN emitted[n].context.params
                          /\ emitted[n].context.params[k] = inv.params[k])

\* C8: health() always returns a boolean: True only when its query returned a
\* first row with ok = 1, and False whenever run_query raised (any error
\* class, missing configuration included).
C8_HealthNeverRaises ==
    (caller = "health" /\ pc = "done")
        => /\ healthResult \in {"True", "False"}
           /\ (healthResult = "True"
                 => /\ lastOutcome.kind = "ok"
                    /\ Len(lastOutcome.rows) > 0
                    /\ "ok" \in DOMAIN lastOutcome.rows[1]
                    /\ lastOutcome.rows[1]["ok"] = 1)
           /\ (delivered.type = "error" => healthResult = "False")

C8_Witness ==
    /\ caller = "health"
    /\ pc = "done"
    /\ delivered.type = "error"
    /\ delivered.error.cause = "AuthError"
    /\ healthResult = "False"

\* C9: when the engine raises service-unavailable for health()'s query,
\* health() returns False having executed the query exactly once.
C9_HealthRunsQueryOnce ==
    (caller = "health" /\ pc = "done" /\ lastOutcome.kind = "ServiceUnavailable")
        => /\ healthResult = "False"
           /\ runs = 1

\* C10: once close() has torn the handle down, no new handle is built and
\* every run_query finished afterwards has raised.
C10_NoReconnectAfterClose ==
    closed => /\ driver = 0
              /\ (InvocationOver => delivered.type = "error")

\* C11: with complete configuration, whatever the interleaving of concurrent
\* first-time callers of get_driver, the driver factory is invoked at most
\* once (exactly once when a caller has returned), every caller that has
\* returned holds that one handle, and a caller that arrived after the handle
\* was stored got it without acquiring the lock.
C11_SingleInitialization ==
    configured
        => /\ driversCreated <= 1
           /\ \A t \in Threads :
                 /\ tpc[t] = "done" => (got[t] = 1 /\ driver = 1 /\ driversCreated = 1)
                 /\ lateArrival[t] => ~tookLock[t]

C11_Witness ==
    /\ configured
    /\ \A t \in Threads : tpc[t] = "done" /\ got[t] = 1
    /\ driversCreated = 1
    /\ \E t, u \in Threads : t # u /\ tookLock[t] /\ tookLock[u]
    /\ \E t \in Threads : lateArrival[t] /\ ~tookLock[t]

\* C12: while NEO4J_URI or NEO4J_USERNAME is missing no connection handle is
\* ever built or stored, and a query fails on its first attempt with the
\* configuration error as its cause: no session, no engine call, no sleep,
\* no retry.
C12_MissingConfigFailsFast ==
    ~configured
        => /\ driver = 0
           /\ driversCreated = 0
           /\ sessionsOpened = 0
           /\ runs = 0
           /\ attempt = 0
           /\ sleeps = <<>>
           /\ (InvocationOver
                 => /\ delivered.type = "error"
                    /\ delivered.error.cause = "RuntimeError")

C12_Witness ==
    /\ ~configured
    /\ InvocationOver
    /\ ~inv.write
    /\ inv.max_retries > 0
    /\ delivered.type = "error"
    /\ delivered.error.cause = "RuntimeError"
    /\ sessionsOpened = 0

\* C13: a syntax failure or a failure of an unrecognized class ends the
\* invocation at once for either write flag and any max_retries: no sleep and
\* no further attempt follows, and the error raised is "Syntax error" with
\* guidance, or "Unexpected error", each wrapping the original cause.
C13_SyntaxAndUnknownFailFast ==
    lastOutcome.kind \in {"CypherSyntaxError", "ValueError"}
        => /\ pc \in {"exit", "wrapper_exit", "health_exit", "done"}
           /\ (InvocationOver
                 => /\ delivered.error.cause = lastOutcome.kind
                    /\ IF lastOutcome.kind = "CypherSyntaxError"
                       THEN /\ RaisedWith("Syntax error")
                            /\ delivered.error.guidance # <<>>
                            /\ delivered.error.text.guidance = delivered.error.guidance
                       ELSE RaisedWith("Unexpected error"))

C13_Witness ==
    /\ InvocationOver
    /\ ~inv.write
    /\ inv.max_retries > 0
    /\ lastOutcome.kind = "ValueError"
    /\ runs = 1
    /\ sleeps = <<>>
    /\ RaisedWith("Unexpected error")

\* C14: every structured line the Query Logger writes to the log sink, fed
\* to the analyzer's parser, yields the embedded context with the query
\* name, the elapsed time and the (redacted) parameters the Logger recorded.
C14_LogLineRoundTrip ==
    \A n \in 1..Len(emitted) :
        emitted[n].has_context
            => LET p == ParseLine(FormatLine(emitted[n]))
               IN /\ p.ok
                  /\ p.context.query_name = emitted[n].context.query_name
                  /\ p.context.elapsed_ms = emitted[n].context.elapsed_ms
                  /\ p.context.params = emitted[n].context.params

(***************************************************************************)
(* Properties of get_slow_query_stats                                      *)
(***************************************************************************)
LineKey(line) == ContextGet(line.payload, anArgs.group_by, "unknown")
LineElapsed(line) == ContextGet(line.payload, "elapsed_ms", 0)

\* The line has a parseable timestamp, a bracketed level and a "context":
\* token followed by a JSON object.
WellFormedLine(line) ==
    /\ StrptimeOk(line.ts)
    /\ line.level # ""
    /\ \E i \in 1..Len(line.tokens) :
          /\ line.tokens[i] = CTX
          /\ i + 3 <= Len(line.tokens)
          /\ SubSeq(line.tokens, i + 1, i + 3) = <<LBRACE, MEMBERS, RBRACE>>

\* The "context": token is followed by one JSON object and exactly one more
\* closing brace, which ends the line.
EmbeddedContext(line) ==
    \E i \in 1..Len(line.tokens) :
        /\ line.tokens[i] = CTX
        /\ SubSeq(line.tokens, i + 1, Len(line.tokens))
               = <<LBRACE, MEMBERS, RBRACE, RBRACE>>

\* Indices of the lines that count under the test Counts and reach min_time_ms.
Contributing(Counts(_)) ==
    {i \in 1..Len(logFile) :
        Counts(logFile[i]) /\ LineElapsed(logFile[i]) >= MinTime(anArgs, logConfig)}

RECURSIVE SumElapsed(_)
SumElapsed(S) ==
    IF S = {} THEN 0
    ELSE LET i == CHOOSE j \in S : TRUE
         IN LineElapsed(logFile[i]) + SumElapsed(S \ {i})

\* The aggregates are exactly those of the lines that count under Counts.
AggregatesFrom(Counts(_)) ==
    LET C == Contributing(Counts)
    IN /\ DOMAIN stats = {LineKey(logFile[i]) : i \in C}
       /\ \A k \in DOMAIN stats :
            LET Ck == {i \in C : LineKey(logFile[i]) = k}
            IN /\ stats[k].count = Cardinality(Ck)
               /\ stats[k].total_time_ms = SumElapsed(Ck)
               /\ \A i \in Ck : /\ stats[k].max_time_ms >= LineElapsed(logFile[i])
                                /\ stats[k].min_time_ms <= LineElapsed(logFile[i])
               /\ \E i \in Ck : stats[k].max_time_ms = LineElapsed(logFile[i])
               /\ \E i \in Ck : stats[k].min_time_ms = LineElapsed(logFile[i])

KeyRank(k) ==
    CASE k = "/api/topics" -> 1
      [] k = "a"           -> 2
      [] k = "b"           -> 3
      [] OTHER             -> 4

\* Index of the first counted line of group k.
FirstLine(k) ==
    LET Ck == {i \in Contributing(EmbeddedContext) : LineKey(logFile[i]) = k}
    IN CHOOSE i \in Ck : \A j \in Ck : i <= j

SameAvg(x, y) == ~AvgLess(x, y) /\ ~AvgLess(y, x)

Item(k) == [name |-> k] @@ stats[k]

\* The result is the first top_n of all groups under the strict order Precedes.
FirstTopN(Precedes(_, _)) ==
    LET names == {anResult[i].name : i \in 1..Len(anResult)}
    IN /\ Len(anResult) = IF anArgs.top_n < Cardinality(DOMAIN stats)
                          THEN anArgs.top_n ELSE Cardinality(DOMAIN stats)
       /\ \A i \in 1..Len(anResult) :
            anResult[i].name \in DOMAIN stats /\ anResult[i] = Item(anResult[i].name)
       /\ \A i, j \in 1..Len(anResult) : i < j => Precedes(anResult[i], anResult[j])
       /\ \A k \in DOMAIN stats \ names :
            \A i \in 1..Len(anResult) : Precedes(anResult[i], Item(k))

ByAvgThenKey(x, y) ==
    \/ AvgLess(y.avg_time_ms, x.avg_time_ms)
    \/ SameAvg(x.avg_time_ms, y.avg_time_ms) /\ KeyRank(x.name) < KeyRank(y.name)

ByAvgThenFirstSeen(x, y) ==
    \/ AvgLess(y.avg_time_ms, x.avg_time_ms)
    \/ SameAvg(x.avg_time_ms, y.avg_time_ms) /\ FirstLine(x.name) < FirstLine(y.name)

\* C18 (as stated): the result is the first top_n of all groups ordered by
\* average elapsed time descending, ties broken by group key ascending.
C18_TopNByAvgThenKey ==
    apc = "done" => FirstTopN(ByAvgThenKey)

\* C18 (amended): the result is the first top_n of all groups ordered by
\* average elapsed time descending, groups of equal average staying in the
\* order in which their first counted line appears in the log; it is the
\* same for a fixed log.
C18_TopNByAvgThenFirstSeen ==
    apc = "done" => FirstTopN(ByAvgThenFirstSeen)

\* A result cut to one group while another group of the same average has the
\* smaller key.
C18_Witness ==
    /\ apc = "done"
    /\ anArgs.top_n = 1
    /\ Len(anResult) = 1
    /\ \E k \in DOMAIN stats :
          /\ k # anResult[1].name
          /\ SameAvg(stats[k].avg_time_ms, anResult[1].avg_time_ms)
          /\ KeyRank(k) < KeyRank(anResult[1].name)

(***************************************************************************)
(* Properties of the log_query wrapper                                     *)
(***************************************************************************)
\* The wrapper has measured the call and handed its records to the logger.
Logged == InvocationOver /\ elapsed >= 0

StructuredLines == {n \in 1..Len(emitted) : emitted[n].has_context}

\* C16 (as stated): a structured line is emitted for a call if and only if
\* its elapsed time is at least slow_query_threshold_ms or log_all_queries is
\* set; otherwise nothing is emitted.
C16_EmitsIffAtLeastThreshold ==
    Logged =>
        LET due == elapsed >= logConfig.slow_query_threshold_ms
                     \/ logConfig.log_all_queries
        IN /\ (StructuredLines # {}) <=> due
           /\ ~due => emitted = <<>>

\* C16 (amended): for a call that returns, a structured line is emitted if
\* and only if its elapsed time is strictly greater than
\* slow_query_threshold_ms or log_all_queries is set, and otherwise nothing
\* is emitted; for a call that raises, exactly one structured line, at level
\* ERROR, is emitted whatever the elapsed time and the flag.
C16_EmitsIffOverThresholdOrFailed ==
    Logged =>
        IF delivered.type = "error"
        THEN /\ Len(emitted) = 1
             /\ emitted[1].has_context
             /\ emitted[1].level = "ERROR"
        ELSE LET due == elapsed > logConfig.slow_query_threshold_ms
                          \/ logConfig.log_all_queries
             IN /\ (StructuredLines # {}) <=> due
                /\ ~due => emitted = <<>>

\* A call that returned after exactly the threshold with the flag off, and
\* left no line.
C16_Witness ==
    /\ Logged
    /\ delivered.type = "rows"
    /\ elapsed = logConfig.slow_query_threshold_ms
    /\ ~logConfig.log_all_queries
    /\ emitted = <<>>

\* A call that raised below the threshold with the flag off, and left a line.
C16_WitnessFailed ==
    /\ Logged
    /\ delivered.type = "error"
    /\ elapsed < logConfig.slow_query_threshold_ms
    /\ ~logConfig.log_all_queries
    /\ Len(emitted) = 1

\* C17: whatever the threshold and the flags, the caller of the wrapped
\* run_query gets exactly the rows the inner call returned, or is raised
\* exactly the error the inner call raised, after the wrapper has logged.
C17_WrapperTransparent ==
    Logged => delivered = outcome

\* An inner call raised, the wrapper logged the error, and the caller got it.
C17_Witness ==
    /\ Logged
    /\ outcome.type = "error"
    /\ Len(emitted) = 1
    /\ emitted[1].level = "ERROR"
    /\ delivered.type = "error"

(***************************************************************************)
(* Properties of the syntax guidance                                       *)
(***************************************************************************)
\* The error text holds one of the fragments the guidance recognizes.
RecognizedPattern(text) ==
    \E f \in {"exists(variable.property)", "STARTS WITH", "ENDS WITH", "CONTAINS",
              "MATCH (n)-[r]->", "Error 42I52"} : Contains(text, f)

\* C19: the guidance of a syntax error is determined by the error text: a
\* text containing exists(variable.property) gets the replacement phrase, a
\* text with no recognized pattern gets exactly the generic block, and the
\* generic block appears only when no pattern matched.
C19_GuidanceFromErrorText ==
    (InvocationOver /\ RaisedWith("Syntax error")) =>
        LET g == delivered.error.guidance
            t == lastOutcome.text
        IN /\ Contains(t, "exists(variable.property)") => Contains(g, G_exists)
           /\ ~RecognizedPattern(t) => g = <<G_general>>
           /\ Contains(g, G_general) => ~RecognizedPattern(t)
           /\ g # <<>>

\* A syntax error naming the deprecated idiom was raised with the replacement
\* phrase and without the generic block.
C19_Witness ==
    /\ InvocationOver
    /\ RaisedWith("Syntax error")
    /\ Contains(lastOutcome.text, "exists(variable.property)")
    /\ Contains(delivered.error.guidance, G_exists)
    /\ ~Contains(delivered.error.guidance, G_general)

\* A syntax error with unrelated text was raised with the generic block.
C19_WitnessGeneric ==
    /\ InvocationOver
    /\ RaisedWith("Syntax error")
    /\ ~RecognizedPattern(lastOutcome.text)
    /\ delivered.error.guidance = <<G_general>>

(***************************************************************************)
(* Properties of the API views                                             *)
(***************************************************************************)
\* C20: when a graph query of a view fails, the view returns a 5xx response
\* with a machine-readable error code, and no exception leaves the view.
C20_FailedQueryGives5xx ==
    (vpc = "done" /\ vFailed) =>
        /\ vResponse.kind = "response"
        /\ vResponse.status >= 500 /\ vResponse.status <= 599
        /\ vResponse.code # ""

(***************************************************************************)
(* Properties of the sessions and of termination                           *)
(***************************************************************************)
\* C26: at every point of an invocation at most one of its sessions is
\* open; none is open during the backoff sleep, when the next attempt starts
\* or once run_query has returned or raised; and the number of sessions
\* opened equals the number of execution attempts.
C26_OneSessionPerAttempt ==
    /\ sessionsOpen \in {0, 1}
    /\ pc \in {"sleep", "open", "wrapper_exit", "health_exit", "done", "idle"}
          => sessionsOpen = 0
    /\ pc = "run" => sessionsOpened = runs + 1
    /\ pc # "run" => sessionsOpened = runs

\* An invocation that retried is over: several sessions were opened, one per
\* attempt, and none is open.
C26_Witness ==
    /\ InvocationOver
    /\ runs >= 2
    /\ sessionsOpened = runs
    /\ sessionsOpen = 0

\* C27: an invocation of run_query never makes more than max_retries + 1
\* execution attempts nor more than max_retries sleeps, and once started it
\* ends, with rows returned or a Diagnostic Error raised.
C27_TerminatesWithinBounds ==
    /\ [](runs <= inv.max_retries + 1 /\ Len(sleeps) <= inv.max_retries)
    /\ (pc = "open") ~> (pc = "done" /\ delivered.type \in {"rows", "error"})

\* An invocation ended after using every attempt and every sleep it may.
C27_Witness ==
    /\ pc = "done"
    /\ inv.max_retries >= 1
    /\ runs = inv.max_retries + 1
    /\ Len(sleeps) = inv.max_retries
    /\ delivered.type = "error"

\* C28: the query name the wrapper records for an invocation, in the log
\* message and in the context, is the query name carried by the Diagnostic
\* Error the invocation raises, also when the caller gave no query name.
C28_LoggedNameIsErrorName ==
    (Logged /\ delivered.type = "error") =>
        \A n \in StructuredLines :
            /\ emitted[n].query_name = delivered.error.query_name
            /\ emitted[n].context.query_name = delivered.error.query_name

(***************************************************************************)
(* Properties of the logger configuration and of the middleware            *)
(***************************************************************************)
\* configure_query_logging has been called at least twice, every time with
\* the same overrides.
ConfiguredAgain ==
    /\ Len(cfgOverrides) >= 2
    /\ \A i \in 1..Len(cfgOverrides) : cfgOverrides[i] = cfgOverrides[1]

\* C25: after two or more calls of configure_query_logging with the same
\* overrides the effective configuration is the defaults overlaid with the
\* overrides, at most one log sink is attached, as after one call, and a
\* record logged afterwards is appended to the log exactly once.
C25_ConfigureIdempotent ==
    ConfiguredAgain =>
        LET effective == Merge(DEFAULT_CONFIG, cfgOverrides[1])
        IN /\ logConfig = effective
           /\ Len(handlers) = IF effective.log_to_file THEN 1 ELSE 0
           /\ \A f \in LogPaths : Appended(handlers, f) <= 1

\* C29: once __call__ is over, by a response or by an exception, _local
\* holds no request field, and a record logged on the thread outside any
\* request carries no request field.
C29_RequestContextCleared ==
    /\ mpc = "idle" => ~tlocal.set
    /\ (lastEmit.happened /\ ~lastEmit.in_request) => ~lastEmit.context.set

\* C24: after a scan each group's examples are at most 3 and are the slowest
\* invocations of the group: every counted line of the group that is slower
\* than a kept example is itself among the examples.
C24_ExamplesAreSlowest ==
    apc = "done" =>
        \A k \in DOMAIN stats :
            LET ex == stats[k].examples
                Ck == {i \in Contributing(EmbeddedContext) : LineKey(logFile[i]) = k}
                el(j) == ContextGet(ex[j], "elapsed_ms", 0)
            IN /\ Len(ex) <= 3
               /\ \A j \in 1..Len(ex) :
                     Cardinality({i \in Ck : LineElapsed(logFile[i]) > el(j)})
                       = Cardinality({m \in 1..Len(ex) : el(m) > el(j)})

\* A title of a real topic: it starts with 'Topic: ', or it is topic zero.
IsTopicTitle(title) ==
    \/ Head(title) = "Topic: "
    \/ title = <<"Topic ZERO: THE NULL TOPIC">>

Cached(table, id) == \E row \in table : row.neo4j_id = id

\* C21: after sync_topics_from_neo4j(force=True) over the rows the query
\* returned, the cache holds a Topic for each returned topic whose title is a
\* topic title and holds none for a returned record with any other title.
C21_PhantomTopicsFiltered ==
    (syLast.op = "topics" /\ syLast.force /\ ~syLast.failed) =>
        \A i \in DOMAIN syLast.returned :
            LET rec == syLast.returned[i]
            IN rec.id # "" =>
                (Cached(topicTable, rec.id) <=> IsTopicTitle(rec.title))

\* C22: after a successful sync_thoughts_from_neo4j the cached Thought rows
\* are exactly the returned thoughts: each returned thought is cached with
\* its returned parent id, and no other thought is cached any more.
C22_ThoughtsEqualReturned ==
    (syLast.op = "thoughts" /\ syLast.result[1] /\ ~syLast.failed) =>
        LET returned == {rec \in Range(syLast.returned) : rec.id # ""}
        IN /\ \A rec \in returned :
                \E row \in thoughtTable :
                    row.neo4j_id = rec.id /\ row.parent_id = rec.parent_id
           /\ \A row \in thoughtTable :
                \E rec \in returned : rec.id = row.neo4j_id

\* C30: when the graph query of sync_topics_from_neo4j fails the sync
\* reports failure and every Topic, TopicTag and Description row is as it
\* was before the sync.
C30_FailedSyncLeavesCache ==
    (syLast.op = "topics" /\ syLast.failed) =>
        /\ ~syLast.result[1]
        /\ topicTable = syLast.before

Tagged == {item \in sourceItems : item.tags # {}}

====
